---- MODULE Spec2Model ----
(***************************************************************************)
(* Model of the media classification and weekly-grouping engine of the     *)
(* Aurora archive generator (src/src/file_processor.py) and of the part of *)
(* main (src/src/main.py) that consumes its result.                        *)
(*                                                                         *)
(* Strings are sequences of one-character strings, so that lower(),        *)
(* title(), startswith(), endswith() and the two regular expressions are   *)
(* computed character by character as the code computes them.             *)
(* A datetime is a record [date, time]: date is the proleptic Gregorian    *)
(* ordinal (date.toordinal()), time the seconds since midnight.            *)
(***************************************************************************)
EXTENDS Integers, Sequences, FiniteSets, TLC

VARIABLES
    directory,         \* entries of target_directory, in iterdir() order
    target_directory,  \* FileProcessor.target_directory, a path
    placeholders,      \* the placeholder assets that exist under project_root
    now,               \* the wall clock, read by datetime.now()
    run,               \* the call of process_files: its inputs and its outcome
    call,              \* the last call of one of the pure helpers
    main_run           \* the call of main(): the collaborators it called, its status

vars == <<directory, target_directory, placeholders, now, run, call, main_run>>

(***************************************************************************)
(* Characters and the str methods the code uses.                           *)
(***************************************************************************)
UpperCase == <<"A","B","C","D","E","F","G","H","I","J","K","L","M","N","O","P","Q","R","S","T","U","V","W","X","Y","Z">>
LowerCase == <<"a","b","c","d","e","f","g","h","i","j","k","l","m","n","o","p","q","r","s","t","u","v","w","x","y","z">>

IsUpper(c) == \E i \in 1..26 : UpperCase[i] = c
IsLower(c) == \E i \in 1..26 : LowerCase[i] = c
\* the character class [A-Za-z]
IsAlpha(c) == IsUpper(c) \/ IsLower(c)

LowerChar(c) == IF IsUpper(c) THEN LowerCase[CHOOSE i \in 1..26 : UpperCase[i] = c] ELSE c
UpperChar(c) == IF IsLower(c) THEN UpperCase[CHOOSE i \in 1..26 : LowerCase[i] = c] ELSE c

\* str.lower()
Lower(s) == [i \in 1..Len(s) |-> LowerChar(s[i])]

\* str.title(): a letter that follows a letter is lowered, any other letter
\* is raised
Title(s) ==
    [i \in 1..Len(s) |->
        IF i > 1 /\ IsAlpha(s[i-1]) THEN LowerChar(s[i]) ELSE UpperChar(s[i])]

\* str.startswith(p), str.endswith(p)
StartsWith(s, p) == Len(p) <= Len(s) /\ SubSeq(s, 1, Len(p)) = p
EndsWith(s, p) == Len(p) <= Len(s) /\ SubSeq(s, Len(s) - Len(p) + 1, Len(s)) = p

\* None, for a value that is a string, and for one that is an object
NoneStr == <<>>
None == [none |-> TRUE]

(***************************************************************************)
(* String literals of the source.                                          *)
(***************************************************************************)
Monday == <<"M","o","n","d","a","y">>
Tuesday == <<"T","u","e","s","d","a","y">>
Wednesday == <<"W","e","d","n","e","s","d","a","y">>
Thursday == <<"T","h","u","r","s","d","a","y">>
Friday == <<"F","r","i","d","a","y">>
Saturday == <<"S","a","t","u","r","d","a","y">>
Sunday == <<"S","u","n","d","a","y">>

DAYS_ORDER == <<Monday, Tuesday, Wednesday, Thursday, Friday, Saturday, Sunday>>

InDaysOrder(d) == \E i \in 1..Len(DAYS_ORDER) : DAYS_ORDER[i] = d

\* DAYS_ORDER.index(day_name), counted from 0 as in the source
DayIndex(day_name) == (CHOOSE i \in 1..Len(DAYS_ORDER) : DAYS_ORDER[i] = day_name) - 1

lit_auroracam == <<"a","u","r","o","r","a","c","a","m">>
lit_cloudcam == <<"c","l","o","u","d","c","a","m">>
lit_spaceweather == <<"s","p","a","c","e","w","e","a","t","h","e","r">>
lit_snapshot_jpg == <<"s","n","a","p","s","h","o","t",".","j","p","g">>
lit_mp4 == <<".","m","p","4">>
lit_gif == <<".","g","i","f">>
lit__snapshot == <<"_","s","n","a","p","s","h","o","t">>
lit_static == <<"s","t","a","t","i","c">>
lit_images == <<"i","m","a","g","e","s">>
lit_placeholder_day == <<"p","l","a","c","e","h","o","l","d","e","r","-","d","a","y",".","j","p","g">>
lit_placeholder_night == <<"p","l","a","c","e","h","o","l","d","e","r","-","n","i","g","h","t",".","j","p","g">>
lit_thumbnail_jpg == <<".","t","h","u","m","b","n","a","i","l",".","j","p","g">>

(***************************************************************************)
(* _determine_file_type                                                    *)
(***************************************************************************)
\* _determine_file_type that compares the name as it is written
DetermineFileType_NoLower(filename) ==
    LET filename_lower == filename IN
    IF StartsWith(filename_lower, lit_auroracam) /\ EndsWith(filename_lower, lit_mp4)
      THEN "aurora"
    ELSE IF StartsWith(filename_lower, lit_cloudcam) /\ EndsWith(filename_lower, lit_mp4)
      THEN "cloud"
    ELSE IF StartsWith(filename_lower, lit_spaceweather) /\ EndsWith(filename_lower, lit_gif)
      THEN "spaceweather"
    ELSE IF filename_lower = lit_snapshot_jpg
      THEN "snapshot"
    ELSE "None"

DetermineFileType(filename) ==
    LET filename_lower == Lower(filename) IN
    IF StartsWith(filename_lower, lit_auroracam) /\ EndsWith(filename_lower, lit_mp4)
      THEN "aurora"
    ELSE IF StartsWith(filename_lower, lit_cloudcam) /\ EndsWith(filename_lower, lit_mp4)
      THEN "cloud"
    ELSE IF StartsWith(filename_lower, lit_spaceweather) /\ EndsWith(filename_lower, lit_gif)
      THEN "spaceweather"
    ELSE IF filename_lower = lit_snapshot_jpg
      THEN "snapshot"
    ELSE "None"

(***************************************************************************)
(* _parse_day_from_filename: re.search of two patterns, IGNORECASE.        *)
(***************************************************************************)
\* the end of the maximal run of [A-Za-z] that starts at position j
\* (j - 1 when s[j] is no letter)
RunEnd(s, j) ==
    IF \E k \in j..Len(s) : ~IsAlpha(s[k])
      THEN (CHOOSE k \in j..Len(s) :
                ~IsAlpha(s[k]) /\ \A m \in j..(k-1) : IsAlpha(s[m])) - 1
      ELSE Len(s)

\* (?:AuroraCam|CloudCam|SpaceWeather)_([A-Za-z]+)\.(?:mp4|gif) matched at
\* position i with the prefix alternative p; the greedy group is the whole
\* run of letters after the underscore, as a shorter one is followed by a
\* letter and not by the dot
Pattern1MatchesAt(s, i, p) ==
    LET j == i + Len(p) + 1
        e == RunEnd(s, j)
    IN  /\ i + Len(p) <= Len(s)
        /\ Lower(SubSeq(s, i, i + Len(p) - 1)) = p
        /\ s[i + Len(p)] = "_"
        /\ e >= j
        /\ e + 4 <= Len(s)
        /\ Lower(SubSeq(s, e + 1, e + 4)) \in {lit_mp4, lit_gif}

Pattern1Prefixes == {lit_auroracam, lit_cloudcam, lit_spaceweather}

Pattern1Starts(s) ==
    {i \in 1..Len(s) : \E p \in Pattern1Prefixes : Pattern1MatchesAt(s, i, p)}

\* group(1) of the leftmost match of the first pattern; NoneStr without a match
Pattern1Group(s) ==
    IF Pattern1Starts(s) = {} THEN NoneStr
    ELSE LET i == CHOOSE a \in Pattern1Starts(s) : \A b \in Pattern1Starts(s) : a <= b
             p == CHOOSE q \in Pattern1Prefixes : Pattern1MatchesAt(s, i, q)
             j == i + Len(p) + 1
         IN  SubSeq(s, j, RunEnd(s, j))

\* group(1) of ([A-Za-z]+)$ : the run of letters the string ends with
Pattern2Group(s) ==
    IF Len(s) = 0 \/ ~IsAlpha(s[Len(s)]) THEN NoneStr
    ELSE LET a == CHOOSE k \in 1..Len(s) :
                    /\ \A m \in k..Len(s) : IsAlpha(s[m])
                    /\ (k = 1 \/ ~IsAlpha(s[k-1]))
         IN  SubSeq(s, a, Len(s))

\* _parse_day_from_filename without .title(): the names are compared as written
ParseDayFromFilename_NoTitle(filename) ==
    LET g1 == Pattern1Group(filename)
        g2 == Pattern2Group(filename)
    IN  IF g1 # NoneStr /\ InDaysOrder(g1) THEN g1
        ELSE IF g2 # NoneStr /\ InDaysOrder(g2) THEN g2
        ELSE NoneStr

ParseDayFromFilename(filename) ==
    LET g1 == Pattern1Group(filename)
        g2 == Pattern2Group(filename)
    IN  IF g1 # NoneStr /\ InDaysOrder(Title(g1)) THEN Title(g1)
        ELSE IF g2 # NoneStr /\ InDaysOrder(Title(g2)) THEN Title(g2)
        ELSE NoneStr

(***************************************************************************)
(* _get_date_for_day                                                       *)
(***************************************************************************)
\* datetime.weekday(): Monday is 0; ordinal 1 (0001-01-01) is a Monday
Weekday(d) == (d.date + 6) % 7

\* days_back with the two indexes exchanged
DaysBack_Swapped(reference_index, day_index) == (day_index - reference_index + 7) % 7

\* days_back without "% 7"
DaysBack_NoModulo(reference_index, day_index) == reference_index - day_index + 7

DaysBack(reference_index, day_index) == (reference_index - day_index + 7) % 7

GetDateForDay(day_name, reference_date) ==
    LET day_index == DayIndex(day_name)
        reference_index == Weekday(reference_date)
        days_back == DaysBack(reference_index, day_index)
    IN  [date |-> reference_date.date - days_back, time |-> 0]

(***************************************************************************)
(* Paths: a sequence of components; an absolute path starts with the root. *)
(***************************************************************************)
RootDir == <<"/">>

IsAbsolute(path) == Len(path) > 0 /\ path[1] = RootDir

\* PurePath.relative_to(base) succeeds when base is a prefix of path
IsRelativeTo(path, base) == Len(base) <= Len(path) /\ SubSeq(path, 1, Len(base)) = base
RelativeTo(path, base) == SubSeq(path, Len(base) + 1, Len(path))

\* PurePath.name, as a path of one component
PathName(path) == <<path[Len(path)]>>

\* PurePath.stem of a file name: the name up to its last dot, the whole name
\* when it has no dot or only a leading one
Stem(name) ==
    LET dots == {i \in 2..Len(name) : name[i] = "."} IN
    IF dots = {} THEN name
    ELSE SubSeq(name, 1, (CHOOSE i \in dots : \A k \in dots : k <= i) - 1)

\* Path(__file__).parent.parent
project_root == <<RootDir, <<"a","p","p">> >>
placeholder_day == project_root \o <<lit_static, lit_images, lit_placeholder_day>>
placeholder_night == project_root \o <<lit_static, lit_images, lit_placeholder_night>>

(***************************************************************************)
(* Bounds of the model and the files and times it draws from.              *)
(***************************************************************************)
\* the most entries the target directory holds
MaxEntries == 3
\* the first day of the clock, as an ordinal: Wednesday 2024-06-12
FirstDay == 739049
\* the reference dates of _get_date_for_day span FirstDay .. FirstDay + MaxRefDays
MaxRefDays == 13
\* the widest table of days that a forecast body carries
MaxColumns == 4

f_1 == <<"A","u","r","o","r","a","C","a","m","_","M","o","n","d","a","y",".","m","p","4">>  \* AuroraCam_Monday.mp4
f_2 == <<"a","u","r","o","r","a","c","a","m","_","m","o","n","d","a","y",".","M","P","4">>  \* auroracam_monday.MP4
f_3 == <<"C","l","o","u","d","C","a","m","_","T","u","e","s","d","a","y",".","m","p","4">>  \* CloudCam_Tuesday.mp4
f_4 == <<"S","p","a","c","e","W","e","a","t","h","e","r","_","S","u","n","d","a","y",".","g","i","f">>  \* SpaceWeather_Sunday.gif
f_5 == <<"s","n","a","p","s","h","o","t",".","j","p","g">>  \* snapshot.jpg
f_6 == <<"A","u","r","o","r","a","C","a","m","_","F","u","n","d","a","y",".","m","p","4">>  \* AuroraCam_Funday.mp4
f_7 == <<"n","o","t","e","s",".","t","x","t">>  \* notes.txt

\* the directory entries that may exist: a name, whether it is a regular file,
\* and its size
Pool ==
    {[name |-> f_1, is_file |-> TRUE, size |-> 4096],
     [name |-> f_2, is_file |-> TRUE, size |-> 512],
     [name |-> f_3, is_file |-> TRUE, size |-> 2048],
     [name |-> f_4, is_file |-> TRUE, size |-> 1024],
     [name |-> f_5, is_file |-> TRUE, size |-> 256],
     [name |-> f_6, is_file |-> TRUE, size |-> 128],
     [name |-> f_7, is_file |-> TRUE, size |-> 64]}

\* the entries of the runs that look at thumbnails: the videos and images of
\* Pool, and for each a sibling named <stem>.thumbnail.jpg, which for the cloud
\* video is a regular file or a directory
t_1 == <<"A","u","r","o","r","a","C","a","m","_","M","o","n","d","a","y",".","t","h","u","m","b","n","a","i","l",".","j","p","g">>  \* AuroraCam_Monday.thumbnail.jpg
t_2 == <<"C","l","o","u","d","C","a","m","_","T","u","e","s","d","a","y",".","t","h","u","m","b","n","a","i","l",".","j","p","g">>  \* CloudCam_Tuesday.thumbnail.jpg
t_3 == <<"S","p","a","c","e","W","e","a","t","h","e","r","_","S","u","n","d","a","y",".","t","h","u","m","b","n","a","i","l",".","j","p","g">>  \* SpaceWeather_Sunday.thumbnail.jpg
t_4 == <<"s","n","a","p","s","h","o","t",".","t","h","u","m","b","n","a","i","l",".","j","p","g">>  \* snapshot.thumbnail.jpg

ThumbPool ==
    {[name |-> f_1, is_file |-> TRUE, size |-> 4096],
     [name |-> f_3, is_file |-> TRUE, size |-> 2048],
     [name |-> f_4, is_file |-> TRUE, size |-> 1024],
     [name |-> f_5, is_file |-> TRUE, size |-> 256],
     [name |-> t_1, is_file |-> TRUE, size |-> 32],
     [name |-> t_2, is_file |-> TRUE, size |-> 32],
     [name |-> t_2, is_file |-> FALSE, size |-> 0],
     [name |-> t_3, is_file |-> TRUE, size |-> 32],
     [name |-> t_4, is_file |-> TRUE, size |-> 32]}

\* the entries of the runs that look at the scan and at main: day files of
\* four weekdays, the snapshot under two spellings, an unclassified file, a
\* thumbnail, and a subdirectory that is named like a video
f_8 == <<"C","l","o","u","d","C","a","m","_","T","h","u","r","s","d","a","y",".","m","p","4">>  \* CloudCam_Thursday.mp4
f_9 == <<"C","l","o","u","d","C","a","m","_","F","r","i","d","a","y",".","m","p","4">>  \* CloudCam_Friday.mp4
s_2 == <<"S","n","a","p","s","h","o","t",".","J","P","G">>  \* Snapshot.JPG

ScanPool ==
    {[name |-> s_2, is_file |-> TRUE, size |-> 300],
     [name |-> f_1, is_file |-> TRUE, size |-> 4096],
     [name |-> f_3, is_file |-> TRUE, size |-> 2048],
     [name |-> f_4, is_file |-> TRUE, size |-> 1024],
     [name |-> f_5, is_file |-> TRUE, size |-> 256],
     [name |-> f_7, is_file |-> TRUE, size |-> 64],
     [name |-> f_8, is_file |-> TRUE, size |-> 2048],
     [name |-> f_9, is_file |-> FALSE, size |-> 0],
     [name |-> t_1, is_file |-> TRUE, size |-> 32]}

\* modification times: a stale one, weeks before the clock, and a fresh one
MTimes == {[date |-> FirstDay - 30, time |-> 3600], [date |-> FirstDay, time |-> 7200]}

TargetDirs == {<<RootDir, <<"s","r","v">>, <<"m","e","d","i","a">> >>}
PlaceholderSets == {{"day", "night"}}

\* for the runs that look at thumbnails: a target directory outside and one
\* inside project_root, and every set of placeholder assets
ThumbTargetDirs ==
    {<<RootDir, <<"s","r","v">>, <<"m","e","d","i","a">> >>,
     project_root \o << <<"m","e","d","i","a">> >>}
ThumbPlaceholderSets == SUBSET {"day", "night"}

\* file names for the calls of the pure helpers: head, middle and tail
NameHeads == {<<"A","u","r","o","r","a","C","a","m">>, <<"A","U","R","O","R","A","C","A","M">>, <<"C","l","o","u","d","C","a","m">>, <<"c","l","o","u","d","c","a","m">>, <<"S","p","a","c","e","W","e","a","t","h","e","r">>, <<"s","n","a","p","s","h","o","t">>, <<"S","n","a","p","s","h","o","t">>, <<"x","A","u","r","o","r","a","C","a","m">>, <<>>}
NameMiddles == {<<>>, <<"_","M","o","n","d","a","y">>, <<"_","m","o","n","d","a","y">>, <<"_","S","U","N","D","A","Y">>, <<"_","F","u","n","d","a","y">>, <<"T","u","e","s","d","a","y">>, <<"-","M","o","n","d","a","y">>}
NameTails == {<<".","m","p","4">>, <<".","M","P","4">>, <<".","g","i","f">>, <<".","j","p","g">>, <<".","J","P","G">>, <<".","m","p","4","x">>, <<>>, <<".","m","p","4",".","g","i","f">>}
PureNames == {h \o m \o e : h \in NameHeads, m \in NameMiddles, e \in NameTails}

\* classified names with text after and before the form <Prefix>_<W>.<ext>
x_1 == <<"A","u","r","o","r","a","C","a","m","_","M","o","n","d","a","y",".","m","p","4",".","m","p","4">>  \* AuroraCam_Monday.mp4.mp4
x_2 == <<"A","u","r","o","r","a","C","a","m","_","o","l","d","_","C","l","o","u","d","C","a","m","_","T","u","e","s","d","a","y",".","m","p","4">>  \* AuroraCam_old_CloudCam_Tuesday.mp4

\* file names of the form <Prefix>_<W>.<ext>, and x_1 and x_2, for the runs
\* of process_files over a directory that holds one file
SingleNames ==
    {x_1, x_2} \cup
    {h \o m \o e :
        h \in {<<"A","u","r","o","r","a","C","a","m">>, <<"c","l","o","u","d","c","a","m">>, <<"S","p","a","c","e","W","e","a","t","h","e","r">>},
        m \in {<<"_","M","o","n","d","a","y">>, <<"_","m","o","n","d","a","y">>, <<"_","S","U","N","D","A","Y">>, <<"_","F","u","n","d","a","y">>},
        e \in {<<".","m","p","4">>, <<".","G","I","F">>}}

RefDates ==
    {[date |-> d, time |-> tm] : d \in FirstDay..(FirstDay + MaxRefDays),
                                 tm \in {0, 43200, 86399}}

\* _determine_file_type and _parse_day_from_filename of the names of Pool,
\* ThumbPool, ScanPool and SingleNames, tabulated once
PoolNames == {item.name : item \in Pool \cup ThumbPool \cup ScanPool} \cup SingleNames
FileTypeOfName == [n \in PoolNames |-> DetermineFileType(n)]
DayOfName == [n \in PoolNames |-> ParseDayFromFilename(n)]

(***************************************************************************)
(* Environment inputs of one call of process_files.                        *)
(*   fault: at most one I/O or configuration fault,                        *)
(*     iterdir   - target_directory.iterdir() raises OSError               *)
(*     getmtime  - os.path.getmtime raises OSError for entry `at`          *)
(*     stat      - file_path.stat() raises OSError for entry `at`          *)
(*     timezone  - ZoneInfo(config.get_timezone()) raises                  *)
(*   rollover: the clock passes midnight after that many of the run's      *)
(*     calls of _get_date_for_day (0: it does not pass midnight)           *)
(***************************************************************************)
NoFault == [kind |-> "none", at |-> 0]

\* datetime.now() as the c-th call of _get_date_for_day reads it
ReadingAt(clock, rollover, c) ==
    IF rollover = 0 \/ c <= rollover THEN clock
    ELSE [date |-> clock.date + 1, time |-> 0]

(***************************************************************************)
(* _get_file_date, _find_thumbnail_file, _get_placeholder_path             *)
(***************************************************************************)
NoPath == <<>>

GetFileDate(entry, i, fault, clock) ==
    IF fault.kind = "getmtime" /\ fault.at = i THEN clock ELSE entry.mtime

\* _find_thumbnail_file without "and thumbnail_path.is_file()"
FindThumbnailFile_AnyEntry(dir, tdir, name) ==
    LET thumbnail_name == Stem(name) \o lit_thumbnail_jpg IN
    IF \E k \in 1..Len(dir) : dir[k].name = thumbnail_name
      THEN tdir \o <<thumbnail_name>>
      ELSE NoPath

FindThumbnailFile(dir, tdir, name) ==
    LET thumbnail_name == Stem(name) \o lit_thumbnail_jpg IN
    IF \E k \in 1..Len(dir) : dir[k].name = thumbnail_name /\ dir[k].is_file
      THEN tdir \o <<thumbnail_name>>
      ELSE NoPath

GetPlaceholderPath(ph, media_type) ==
    IF media_type = "aurora"
      THEN (IF "night" \in ph THEN placeholder_night ELSE NoPath)
    ELSE IF media_type = "cloud"
      THEN (IF "day" \in ph THEN placeholder_day ELSE NoPath)
    ELSE NoPath

(***************************************************************************)
(* _scan_files                                                             *)
(***************************************************************************)
\* ScanEntry that looks for a thumbnail beside a file of any type
ScanEntry_AllKinds(dir, tdir, ph, i, fault, clock) ==
    LET entry == dir[i]
        file_type == FileTypeOfName[entry.name]
        found == FindThumbnailFile(dir, tdir, entry.name)
        thumbnail_path == IF found = NoPath
                            THEN GetPlaceholderPath(ph, file_type)
                            ELSE found
    IN  [path |-> tdir \o <<entry.name>>,
         type |-> file_type,
         day |-> IF file_type # "snapshot" THEN DayOfName[entry.name] ELSE NoneStr,
         file_date |-> GetFileDate(entry, i, fault, clock),
         size |-> entry.size,
         thumbnail_path |-> thumbnail_path]

ScanEntry(dir, tdir, ph, i, fault, clock) ==
    LET entry == dir[i]
        file_type == FileTypeOfName[entry.name]
        found == IF file_type \in {"aurora", "cloud"}
                   THEN FindThumbnailFile(dir, tdir, entry.name)
                   ELSE NoPath
        thumbnail_path == IF file_type \in {"aurora", "cloud"} /\ found = NoPath
                            THEN GetPlaceholderPath(ph, file_type)
                            ELSE found
    IN  [path |-> tdir \o <<entry.name>>,
         type |-> file_type,
         day |-> IF file_type # "snapshot" THEN DayOfName[entry.name] ELSE NoneStr,
         file_date |-> GetFileDate(entry, i, fault, clock),
         size |-> entry.size,
         thumbnail_path |-> thumbnail_path]

\* what file_path.stat() raising OSError at entry i does to the scan: the
\* except clause is outside the for loop, so the loop ends and the files
\* gathered so far are returned
RECURSIVE ScanFrom(_, _, _, _, _, _, _)
ScanFrom(dir, tdir, ph, i, media_files, fault, clock) ==
    IF i > Len(dir) THEN media_files
    ELSE IF ~dir[i].is_file \/ FileTypeOfName[dir[i].name] = "None"
      THEN ScanFrom(dir, tdir, ph, i + 1, media_files, fault, clock)
    ELSE IF fault.kind = "stat" /\ fault.at = i
      THEN media_files
    ELSE ScanFrom(dir, tdir, ph, i + 1,
                  Append(media_files, ScanEntry(dir, tdir, ph, i, fault, clock)),
                  fault, clock)

\* the scan without the test "if file_path.is_file()"
ScanFiles_NoIsFile(dir, tdir, ph, fault, clock) ==
    LET files == [i \in 1..Len(dir) |-> [dir[i] EXCEPT !.is_file = TRUE]] IN
    IF fault.kind = "iterdir" THEN <<>>
    ELSE ScanFrom(files, tdir, ph, 1, <<>>, fault, clock)

\* the scan that ends at the first unclassified file: break for continue
ScanFiles_StopsAtUnclassified(dir, tdir, ph, fault, clock) ==
    LET stops == {i \in 1..Len(dir) :
                     dir[i].is_file /\ FileTypeOfName[dir[i].name] = "None"}
        n == IF stops = {} THEN Len(dir)
             ELSE (CHOOSE i \in stops : \A k \in stops : i <= k) - 1
    IN  IF fault.kind = "iterdir" THEN <<>>
        ELSE ScanFrom(SubSeq(dir, 1, n), tdir, ph, 1, <<>>, fault, clock)

ScanFiles(dir, tdir, ph, fault, clock) ==
    IF fault.kind = "iterdir" THEN <<>>
    ELSE ScanFrom(dir, tdir, ph, 1, <<>>, fault, clock)

(***************************************************************************)
(* _group_files_by_day: days_media is a dict, modelled as the sequence of  *)
(* its items in insertion order.                                           *)
(***************************************************************************)
UniqueDays(media_files) ==
    {media_files[i].day : i \in {k \in 1..Len(media_files) : media_files[k].day # NoneStr}}

DayMedia(date, day_name) ==
    [date |-> date, day_name |-> day_name,
     aurora_video |-> None, cloud_video |-> None, spaceweather_image |-> None]

\* InitDays that dates a weekday by the modification time of its first file
InitDays_FileDate(media_files, clock, rollover) ==
    LET names == SelectSeq(DAYS_ORDER, LAMBDA d : d \in UniqueDays(media_files)) IN
    [c \in 1..Len(names) |->
        [key |-> names[c],
         value |-> DayMedia(
             media_files[CHOOSE i \in 1..Len(media_files) :
                            /\ media_files[i].day = names[c]
                            /\ \A k \in 1..(i-1) : media_files[k].day # names[c]].file_date,
             names[c])]]

\* InitDays without the test "if day_name in unique_days"
InitDays_AllDays(media_files, clock, rollover) ==
    [c \in 1..Len(DAYS_ORDER) |->
        [key |-> DAYS_ORDER[c],
         value |-> DayMedia(GetDateForDay(DAYS_ORDER[c], ReadingAt(clock, rollover, c)),
                            DAYS_ORDER[c])]]

\* InitDays that goes through the weekdays in the order of the scan list
\* rather than in the order of DAYS_ORDER
InitDays_ScanOrder(media_files, clock, rollover) ==
    LET firsts == {i \in 1..Len(media_files) :
                      /\ media_files[i].day # NoneStr
                      /\ \A k \in 1..(i - 1) : media_files[k].day # media_files[i].day}
        Nth[c \in 1..Cardinality(firsts)] ==
            CHOOSE i \in firsts : Cardinality({k \in firsts : k <= i}) = c
    IN  [c \in 1..Cardinality(firsts) |->
            [key |-> media_files[Nth[c]].day,
             value |-> DayMedia(GetDateForDay(media_files[Nth[c]].day,
                                              ReadingAt(clock, rollover, c)),
                                media_files[Nth[c]].day)]]

InitDays(media_files, clock, rollover) ==
    LET names == SelectSeq(DAYS_ORDER, LAMBDA d : d \in UniqueDays(media_files)) IN
    [c \in 1..Len(names) |->
        [key |-> names[c],
         value |-> DayMedia(GetDateForDay(names[c], ReadingAt(clock, rollover, c)),
                            names[c])]]

HasKey(days_media, k) == \E i \in 1..Len(days_media) : days_media[i].key = k

\* SetSlot that keeps the file a slot already holds
SetSlot_FirstWins(day_media, media_file) ==
    IF media_file.type = "aurora" /\ day_media.aurora_video = None
      THEN [day_media EXCEPT !.aurora_video = media_file]
    ELSE IF media_file.type = "cloud" /\ day_media.cloud_video = None
      THEN [day_media EXCEPT !.cloud_video = media_file]
    ELSE IF media_file.type = "spaceweather" /\ day_media.spaceweather_image = None
      THEN [day_media EXCEPT !.spaceweather_image = media_file]
    ELSE day_media

SetSlot(day_media, media_file) ==
    IF media_file.type = "aurora" THEN [day_media EXCEPT !.aurora_video = media_file]
    ELSE IF media_file.type = "cloud" THEN [day_media EXCEPT !.cloud_video = media_file]
    ELSE IF media_file.type = "spaceweather"
      THEN [day_media EXCEPT !.spaceweather_image = media_file]
    ELSE day_media

\* AssignOne that keeps the snapshot it already has
AssignOne_FirstSnapshot(st, media_file) ==
    IF media_file.type = "snapshot"
      THEN (IF st.current_snapshot = None
              THEN [st EXCEPT !.current_snapshot = media_file] ELSE st)
    ELSE IF media_file.day # NoneStr /\ HasKey(st.days_media, media_file.day)
      THEN [st EXCEPT !.days_media =
              [i \in 1..Len(st.days_media) |->
                  IF st.days_media[i].key = media_file.day
                    THEN [key |-> st.days_media[i].key,
                          value |-> SetSlot(st.days_media[i].value, media_file)]
                    ELSE st.days_media[i]]]
    ELSE st

\* one iteration of the loop "Assign media to days and handle snapshot"
AssignOne(st, media_file) ==
    IF media_file.type = "snapshot"
      THEN [st EXCEPT !.current_snapshot = media_file]
    ELSE IF media_file.day # NoneStr /\ HasKey(st.days_media, media_file.day)
      THEN [st EXCEPT !.days_media =
              [i \in 1..Len(st.days_media) |->
                  IF st.days_media[i].key = media_file.day
                    THEN [key |-> st.days_media[i].key,
                          value |-> SetSlot(st.days_media[i].value, media_file)]
                    ELSE st.days_media[i]]]
    ELSE st

RECURSIVE AssignFrom(_, _, _)
AssignFrom(st, media_files, i) ==
    IF i > Len(media_files) THEN st
    ELSE AssignFrom(AssignOne(st, media_files[i]), media_files, i + 1)

\* _group_files_by_day without "Store snapshot reference if found"
GroupFilesByDay_DropSnapshot(media_files, clock, rollover) ==
    AssignFrom([days_media |-> InitDays(media_files, clock, rollover),
                current_snapshot |-> None],
               media_files, 1).days_media

GroupFilesByDay(media_files, clock, rollover) ==
    LET st == AssignFrom([days_media |-> InitDays(media_files, clock, rollover),
                          current_snapshot |-> None],
                         media_files, 1)
    IN  IF st.current_snapshot # None
          THEN Append(st.days_media, [key |-> lit__snapshot, value |-> st.current_snapshot])
          ELSE st.days_media

(***************************************************************************)
(* _sort_days_by_recency: list.sort(key=date, reverse=True), a stable sort *)
(***************************************************************************)
Later(a, b) == a.date > b.date \/ (a.date = b.date /\ a.time > b.time)

\* InsertByRecency of a sort without reverse=True
InsertByRecency_Ascending(sorted, x) ==
    LET n == Cardinality({i \in 1..Len(sorted) : ~Later(sorted[i].date, x.date)}) IN
    SubSeq(sorted, 1, n) \o <<x>> \o SubSeq(sorted, n + 1, Len(sorted))

\* x goes behind every element whose date is later than or equal to its own
InsertByRecency(sorted, x) ==
    LET n == Cardinality({i \in 1..Len(sorted) : ~Later(x.date, sorted[i].date)}) IN
    SubSeq(sorted, 1, n) \o <<x>> \o SubSeq(sorted, n + 1, Len(sorted))

RECURSIVE SortFrom(_, _, _)
SortFrom(sorted, items, i) ==
    IF i > Len(items) THEN sorted
    ELSE SortFrom(InsertByRecency(sorted, items[i]), items, i + 1)

SortDaysByRecency(days_media) ==
    LET day_items == SelectSeq(days_media, LAMBDA it : it.key # lit__snapshot) IN
    SortFrom(<<>>, [i \in 1..Len(day_items) |-> day_items[i].value], 1)

(***************************************************************************)
(* _get_relative_path and process_files                                    *)
(***************************************************************************)
GetRelativePath(tdir, file_path) ==
    IF IsRelativeTo(file_path, tdir) THEN RelativeTo(file_path, tdir)
    ELSE PathName(file_path)

\* NormalizeThumbnail that makes every thumbnail relative to target_directory
NormalizeThumbnail_TargetOnly(tdir, media_file) ==
    IF media_file = None THEN None
    ELSE IF media_file.thumbnail_path = NoPath THEN media_file
    ELSE [media_file EXCEPT !.thumbnail_path = GetRelativePath(tdir, @)]

NormalizeThumbnail(tdir, media_file) ==
    IF media_file = None THEN None
    ELSE IF media_file.thumbnail_path = NoPath THEN media_file
    ELSE IF IsAbsolute(media_file.thumbnail_path)
      THEN [media_file EXCEPT !.thumbnail_path =
              IF IsRelativeTo(@, project_root) THEN RelativeTo(@, project_root)
              ELSE PathName(@)]
    ELSE [media_file EXCEPT !.thumbnail_path = GetRelativePath(tdir, @)]

NormalizeDay(tdir, day_media) ==
    [day_media EXCEPT
        !.aurora_video = NormalizeThumbnail(tdir, @),
        !.cloud_video = NormalizeThumbnail(tdir, @),
        !.spaceweather_image = NormalizeThumbnail(tdir, @)]

\* days_media.pop('_snapshot', None)
PopSnapshot(days_media) ==
    IF HasKey(days_media, lit__snapshot)
      THEN (CHOOSE it \in {days_media[i] : i \in 1..Len(days_media)} :
                it.key = lit__snapshot).value
      ELSE None

\* process_files from "if not media_files" on: what it returns, or the
\* exception that leaves it. _get_date_for_day is called, and the time zone
\* looked up, only for a weekday that some scanned file carries.
ProcessMediaFiles(media_files, tdir, fault, clock, rollover) ==
    IF media_files = <<>>
      THEN [raised |-> "None", media_files |-> media_files,
            days |-> <<>>, snapshot |-> None]
    ELSE IF fault.kind = "timezone" /\ UniqueDays(media_files) # {}
      THEN [raised |-> "ZoneInfoNotFoundError", media_files |-> media_files,
            days |-> <<>>, snapshot |-> None]
    ELSE LET days_media == GroupFilesByDay(media_files, clock, rollover)
             sorted_days == SortDaysByRecency(days_media)
         IN  [raised |-> "None", media_files |-> media_files,
              days |-> [i \in 1..Len(sorted_days) |-> NormalizeDay(tdir, sorted_days[i])],
              snapshot |-> PopSnapshot(days_media)]

\* process_files whose scan does not catch the OSError of iterdir()
ProcessFiles_IterdirEscapes(dir, tdir, ph, fault, clock, rollover) ==
    IF fault.kind = "iterdir"
      THEN [raised |-> "OSError", media_files |-> <<>>, days |-> <<>>, snapshot |-> None]
      ELSE ProcessMediaFiles(ScanFiles(dir, tdir, ph, fault, clock),
                             tdir, fault, clock, rollover)

ProcessFiles(dir, tdir, ph, fault, clock, rollover) ==
    ProcessMediaFiles(ScanFiles(dir, tdir, ph, fault, clock), tdir, fault, clock, rollover)

(***************************************************************************)
(* The state machine.                                                      *)
(***************************************************************************)
Init ==
    /\ directory = <<>>
    /\ target_directory \in TargetDirs
    /\ placeholders \in PlaceholderSets
    /\ now = [date |-> FirstDay, time |-> 43200]
    /\ run = None
    /\ call = None
    /\ main_run = None

EntryNames == {directory[i].name : i \in 1..Len(directory)}

\* a file or a subdirectory appears in the target directory
CreateFile(item, mtime) ==
    /\ run = None
    /\ Len(directory) < MaxEntries
    /\ item.name \notin EntryNames
    /\ directory' = Append(directory,
                           [name |-> item.name, is_file |-> item.is_file,
                            size |-> item.size, mtime |-> mtime])
    /\ UNCHANGED <<target_directory, placeholders, now, run, call, main_run>>

\* an entry disappears
Unlink(i) ==
    /\ run = None
    /\ i \in 1..Len(directory)
    /\ directory' = SubSeq(directory, 1, i - 1) \o SubSeq(directory, i + 1, Len(directory))
    /\ UNCHANGED <<target_directory, placeholders, now, run, call, main_run>>

\* an entry's modification time changes
Touch(i, mtime) ==
    /\ run = None
    /\ i \in 1..Len(directory)
    /\ directory[i].mtime # mtime
    /\ directory' = [directory EXCEPT ![i].mtime = mtime]
    /\ UNCHANGED <<target_directory, placeholders, now, run, call, main_run>>

\* the faults of a run: getmtime and stat are called, and can fail, only for
\* a regular file whose name is classified
Faults ==
    {NoFault, [kind |-> "iterdir", at |-> 0], [kind |-> "timezone", at |-> 0]}
    \cup {[kind |-> k, at |-> i] :
            k \in {"getmtime", "stat"},
            i \in {j \in 1..Len(directory) :
                      directory[j].is_file /\ FileTypeOfName[directory[j].name] # "None"}}

\* the rollovers that differ: midnight falls between two of the run's calls
\* of _get_date_for_day, or not within the run
Rollovers(fault) ==
    LET calls == Cardinality(UniqueDays(
                     ScanFiles(directory, target_directory, placeholders, fault, now)))
    IN  {0} \cup 1..(calls - 1)

\* FileProcessor(target_directory).process_files(), once per invocation
ProcessFilesCall(fault, rollover) ==
    /\ run = None
    /\ run' = [fault |-> fault, rollover |-> rollover, clock |-> now,
               result |-> ProcessFiles(directory, target_directory, placeholders,
                                       fault, now, rollover)]
    /\ UNCHANGED <<directory, target_directory, placeholders, now, call, main_run>>

Next ==
    \/ \E item \in Pool, mtime \in MTimes : CreateFile(item, mtime)
    \/ \E i \in 1..MaxEntries : Unlink(i)
    \/ \E i \in 1..MaxEntries, mtime \in MTimes : Touch(i, mtime)
    \/ \E fault \in Faults : \E rollover \in Rollovers(fault) :
            ProcessFilesCall(fault, rollover)

Spec == Init /\ [][Next]_vars

(***************************************************************************)
(* The pure helpers, called on their own, one call in a behaviour.         *)
(***************************************************************************)
CallGetDateForDay(day_name, reference_date) ==
    /\ call = None
    /\ call' = [fn |-> "_get_date_for_day", day_name |-> day_name,
                reference_date |-> reference_date,
                ret |-> GetDateForDay(day_name, reference_date)]
    /\ UNCHANGED <<directory, target_directory, placeholders, now, run, main_run>>

CallDetermineFileType(filename) ==
    /\ call = None
    /\ call' = [fn |-> "_determine_file_type", filename |-> filename,
                ret |-> DetermineFileType(filename)]
    /\ UNCHANGED <<directory, target_directory, placeholders, now, run, main_run>>

CallParseDayFromFilename(filename) ==
    /\ call = None
    /\ call' = [fn |-> "_parse_day_from_filename", filename |-> filename,
                ret |-> ParseDayFromFilename(filename)]
    /\ UNCHANGED <<directory, target_directory, placeholders, now, run, main_run>>

\* process_files over a target directory that holds one regular file
CallProcessFiles(filename) ==
    /\ call = None
    /\ call' = [fn |-> "process_files", filename |-> filename,
                ret |-> ProcessFiles(<<[name |-> filename, is_file |-> TRUE, size |-> 1024,
                                        mtime |-> [date |-> FirstDay - 30, time |-> 3600]]>>,
                                     target_directory, placeholders, NoFault, now, 0)]
    /\ UNCHANGED <<directory, target_directory, placeholders, now, run, main_run>>

NextPure ==
    \/ \E i \in 1..Len(DAYS_ORDER), r \in RefDates : CallGetDateForDay(DAYS_ORDER[i], r)
    \/ \E n \in PureNames : CallDetermineFileType(n)
    \/ \E n \in PureNames : CallParseDayFromFilename(n)
    \/ \E n \in SingleNames : CallProcessFiles(n)

SpecPure == Init /\ [][NextPure]_vars

(***************************************************************************)
(* The runs that look at the scan: the directory is filled from ScanPool,  *)
(* every fault and every rollover can occur.                               *)
(***************************************************************************)
NextScan ==
    \/ \E item \in ScanPool :
            CreateFile(item, [date |-> FirstDay - 30, time |-> 3600])
    \/ \E i \in 1..MaxEntries : Unlink(i)
    \/ \E fault \in Faults : \E rollover \in Rollovers(fault) :
            ProcessFilesCall(fault, rollover)

SpecScan == Init /\ [][NextScan]_vars

(***************************************************************************)
(* main(): what it calls and the status it returns.                        *)
(*   valid:   validate_target_directory returns (else it raises)           *)
(*   weather: get_weather_data "returns" or "raises"                       *)
(*   html:    what generate_website returns, TRUE when the page is written *)
(***************************************************************************)
\* main that goes on when there is a snapshot although no day
MainOutcome_RendersSnapshot(valid, result, weather, html) ==
    IF ~valid
      THEN [calls |-> <<"validate_target_directory">>, html_written |-> FALSE, status |-> 1]
    ELSE IF result.raised # "None" \/ (result.days = <<>> /\ result.snapshot = None)
      THEN [calls |-> <<"validate_target_directory", "process_files">>,
            html_written |-> FALSE, status |-> 1]
    ELSE IF weather = "raises"
      THEN [calls |-> <<"validate_target_directory", "process_files", "get_weather_data">>,
            html_written |-> FALSE, status |-> 1]
    ELSE [calls |-> <<"validate_target_directory", "process_files", "get_weather_data",
                      "generate_website">>,
          html_written |-> html, status |-> 0]

MainOutcome(valid, result, weather, html) ==
    IF ~valid
      THEN [calls |-> <<"validate_target_directory">>, html_written |-> FALSE, status |-> 1]
    ELSE IF result.raised # "None" \/ result.days = <<>>
      THEN [calls |-> <<"validate_target_directory", "process_files">>,
            html_written |-> FALSE, status |-> 1]
    ELSE IF weather = "raises"
      THEN [calls |-> <<"validate_target_directory", "process_files", "get_weather_data">>,
            html_written |-> FALSE, status |-> 1]
    ELSE [calls |-> <<"validate_target_directory", "process_files", "get_weather_data",
                      "generate_website">>,
          html_written |-> html, status |-> 0]

MainCall(valid, fault, weather, html) ==
    /\ run = None
    /\ main_run = None
    /\ LET result == ProcessFiles(directory, target_directory, placeholders,
                                  fault, now, 0)
       IN  /\ run' = IF valid
                       THEN [fault |-> fault, rollover |-> 0, clock |-> now,
                             result |-> result]
                       ELSE run
           /\ main_run' = MainOutcome(valid, result, weather, html)
    /\ UNCHANGED <<directory, target_directory, placeholders, now, call>>

NextMain ==
    \/ \E item \in ScanPool :
            main_run = None /\ CreateFile(item, [date |-> FirstDay - 30, time |-> 3600])
    \/ \E i \in 1..MaxEntries : main_run = None /\ Unlink(i)
    \/ \E valid \in BOOLEAN, fault \in Faults, weather \in {"returns", "raises"},
           html \in BOOLEAN :
            MainCall(valid, fault, weather, html)

SpecMain == Init /\ [][NextMain]_vars

(***************************************************************************)
(* Config: _load_config, _apply_env_overrides, _set_nested_value,          *)
(* _convert_env_value, get. A configuration is a dict of sections, each a   *)
(* dict of keys or, in a YAML file, possibly a scalar; a value is its       *)
(* Python type and its text. Of the fifteen mapped AURORA_* variables the   *)
(* model carries three, one per type of default.                            *)
(***************************************************************************)
Str(text) == [type |-> "str", text |-> text]
NoValue == [type |-> "NoneType", text |-> <<>>]
Unset == [type |-> "unset", text |-> <<>>]

Dict(items) == [is_dict |-> TRUE, items |-> items]
Scalar == [is_dict |-> FALSE, items |-> [k \in {} |-> NoValue]]

\* _get_default_config, the keys that the three variables map to
DefaultConfig ==
    [is_dict |-> TRUE,
     sections |->
        [sec \in {"site", "location", "display"} |->
            IF sec = "site"
              THEN Dict([k \in {"name"} |-> Str(<<"A","u","r","o","r","a"," ","S","k","y","w","a","t","c","h"," ","A","r","c","h","i","v","e">>)])
            ELSE IF sec = "location"
              THEN Dict([k \in {"timezone"} |-> Str(<<"A","m","e","r","i","c","a","/","C","h","i","c","a","g","o">>)])
            ELSE Dict([k \in {"forecast_days"} |->
                          [type |-> "int", text |-> <<"3">>]])]]

\* env_mappings
EnvMappings ==
    [v \in {"AURORA_SITE_NAME", "AURORA_LOCATION_TIMEZONE",
            "AURORA_DISPLAY_FORECAST_DAYS"} |->
        IF v = "AURORA_SITE_NAME" THEN <<"site", "name">>
        ELSE IF v = "AURORA_LOCATION_TIMEZONE" THEN <<"location", "timezone">>
        ELSE <<"display", "forecast_days">>]

\* the values a variable of the environment may have
EnvValues == {<<"Y","e","s">>, <<"0">>, <<"5">>, <<"E","u","r","o","p","e","/","O","s","l","o">>}

Environments == [DOMAIN EnvMappings -> {Str(v) : v \in EnvValues} \cup {Unset}]

\* what config.yml is: missing, unreadable (open raises), malformed (the
\* parser raises), or a YAML document: empty, a list, or a dict
YamlFiles ==
    {[kind |-> k, data |-> DefaultConfig] : k \in {"missing", "unreadable", "malformed"}}
    \cup
    {[kind |-> "document", data |-> d] :
        d \in {\* an empty document: safe_load returns None
               [is_dict |-> TRUE, sections |-> [sec \in {} |-> Scalar]],
               \* a list at the top
               [is_dict |-> FALSE, sections |-> [sec \in {} |-> Scalar]],
               \* site: {name: My Sky}
               [is_dict |-> TRUE,
                sections |-> [sec \in {"site"} |->
                                 Dict([k \in {"name"} |-> Str(<<"M","y"," ","S","k","y">>)])]],
               \* site: hello
               [is_dict |-> TRUE, sections |-> [sec \in {"site"} |-> Scalar]],
               \* the three sections, as in the defaults
               DefaultConfig}}

IsDigits(text) ==
    Len(text) > 0 /\ \A i \in 1..Len(text) :
        text[i] \in {"0","1","2","3","4","5","6","7","8","9"}

\* _convert_env_value on the values of EnvValues and their like: a boolean
\* word, digits with at most one dot, or any other text
ConvertEnvValue(value) ==
    LET lower_value == Lower(value)
        dots == {i \in 1..Len(value) : value[i] = "."}
    IN  IF lower_value \in {<<"t","r","u","e">>, <<"y","e","s">>, <<"1">>, <<"o","n">>}
          THEN [type |-> "bool", text |-> <<"T","r","u","e">>]
        ELSE IF lower_value \in {<<"f","a","l","s","e">>, <<"n","o">>, <<"0">>, <<"o","f","f">>}
          THEN [type |-> "bool", text |-> <<"F","a","l","s","e">>]
        ELSE IF dots # {}
          THEN (IF Cardinality(dots) = 1
                   /\ IsDigits(SelectSeq(value, LAMBDA c : c # "."))
                  THEN [type |-> "float", text |-> value]
                  ELSE Str(value))
        ELSE IF IsDigits(value) THEN [type |-> "int", text |-> value]
        ELSE Str(value)

\* _set_nested_value raises TypeError: the configuration is no dict, or the
\* section of the path is no dict
SetNestedValueRaises(config, path) ==
    \/ ~config.is_dict
    \/ path[1] \in DOMAIN config.sections /\ ~config.sections[path[1]].is_dict

SetNestedValue(config, path, value) ==
    LET section == IF path[1] \in DOMAIN config.sections
                     THEN config.sections[path[1]]
                     ELSE Dict([k \in {} |-> NoValue])
    IN  [config EXCEPT !.sections =
            (path[1] :> Dict((path[2] :> value) @@ section.items)) @@ @]

\* Config.get of a path of two keys
ConfigGet(config, path) ==
    IF /\ config.is_dict
       /\ path[1] \in DOMAIN config.sections
       /\ config.sections[path[1]].is_dict
       /\ path[2] \in DOMAIN config.sections[path[1]].items
      THEN config.sections[path[1]].items[path[2]]
      ELSE NoValue

\* the loop of _apply_env_overrides over the variables that are set
RECURSIVE ApplyEnvOverrides(_, _, _)
ApplyEnvOverrides(config, env, vs) ==
    IF vs = {} THEN config
    ELSE LET v == CHOOSE x \in vs : TRUE IN
         ApplyEnvOverrides(
             IF env[v] = Unset THEN config
             ELSE SetNestedValue(config, EnvMappings[v], ConvertEnvValue(env[v].text)),
             env, vs \ {v})

\* _load_config: an exception, of reading the file or of an override, leaves
\* the defaults, without overrides
LoadConfig(yaml, env) ==
    IF yaml.kind \in {"unreadable", "malformed"} THEN DefaultConfig
    ELSE LET loaded == IF yaml.kind = "missing" THEN DefaultConfig ELSE yaml.data
             raises == \E v \in DOMAIN env :
                           env[v] # Unset /\ SetNestedValueRaises(loaded, EnvMappings[v])
         IN  IF raises THEN DefaultConfig
             ELSE ApplyEnvOverrides(loaded, env, DOMAIN env)

CallConfig(yaml, env) ==
    /\ call = None
    /\ call' = [fn |-> "Config", yaml |-> yaml, env |-> env,
                config |-> LoadConfig(yaml, env)]
    /\ UNCHANGED <<directory, target_directory, placeholders, now, run, main_run>>

NextConfig == \E yaml \in YamlFiles, env \in Environments : CallConfig(yaml, env)

SpecConfig == Init /\ [][NextConfig]_vars

(***************************************************************************)
(* HTMLGenerator._copy_static_files. The file system is a function from    *)
(* the paths of the static directories to their content: whether the       *)
(* directory exists, and the set of the files below it.                    *)
(*   fault: shutil.rmtree or shutil.copytree raises                        *)
(***************************************************************************)
Missing == [exists |-> FALSE, files |-> {}]

static_dir == project_root \o <<lit_static>>

\* output_path.parent of main: the target directory, outside project_root,
\* inside it, or project_root itself
OutputDirs ==
    {<<RootDir, <<"s","r","v">>, <<"m","e","d","i","a">> >>,
     project_root \o << <<"m","e","d","i","a">> >>,
     project_root}

StaticPaths == {static_dir} \cup {o \o <<lit_static>> : o \in OutputDirs}

StaticContents ==
    {[exists |-> TRUE, files |-> fls] :
        fls \in SUBSET {"css/style.css", "images/placeholder-day.jpg",
                        "images/placeholder-night.jpg"}}

\* the file systems before the call: the source holds any of the assets or
\* is missing, an output static directory is missing or left by an earlier run
FileSystems ==
    {fs \in [StaticPaths -> StaticContents \cup {Missing}] :
        \A q \in StaticPaths \ {static_dir} :
            fs[q] \in {Missing, [exists |-> TRUE, files |-> {"css/style.css"}]}}

CopyFaults == {"none", "rmtree", "copytree"}

CopyStaticFiles(fs, output_dir, fault) ==
    LET output_static_dir == output_dir \o <<lit_static>>
        removed == IF fs[output_static_dir] # Missing
                     THEN [fs EXCEPT ![output_static_dir] = Missing]
                     ELSE fs
    IN  IF fs[static_dir] = Missing THEN fs
        ELSE IF fs[output_static_dir] # Missing /\ fault = "rmtree" THEN fs
        ELSE IF removed[static_dir] = Missing \/ fault = "copytree" THEN removed
        ELSE [removed EXCEPT ![output_static_dir] = removed[static_dir]]

CallCopyStaticFiles(fs, output_dir, fault) ==
    /\ call = None
    /\ call' = [fn |-> "_copy_static_files", output_dir |-> output_dir,
                fault |-> fault, before |-> fs,
                after |-> CopyStaticFiles(fs, output_dir, fault)]
    /\ UNCHANGED <<directory, target_directory, placeholders, now, run, main_run>>

NextStatic ==
    \E fs \in FileSystems, output_dir \in OutputDirs, fault \in CopyFaults :
        CallCopyStaticFiles(fs, output_dir, fault)

SpecStatic == Init /\ [][NextStatic]_vars

(***************************************************************************)
(* WeatherFetcher. The network is a function from the endpoints to the     *)
(* response that a request gets. A response is its kind and, for a body    *)
(* that carries a table of forecast days, the numbers of days in it:       *)
(*   error        - the request raises RequestException (connection,       *)
(*                  timeout, HTTP status)                                   *)
(*   invalid      - the body is not JSON                                    *)
(*   malformed    - JSON of another shape than a list of rows (a dict, a    *)
(*                  number, rows that are dicts)                            *)
(*   short        - a JSON list of at most the header row                   *)
(*   no_observed  - rows, none with status 'observed'                       *)
(*   bad_kp       - the latest observed row has a Kp that float() rejects   *)
(*   kp           - the latest observed row has a numeric Kp                *)
(* and for the text endpoints no_kp, kp, table; data, image elsewhere.      *)
(***************************************************************************)
Body(kind, dates, columns) == [kind |-> kind, dates |-> dates, columns |-> columns]
NoBody == Body("None", 0, 0)

JsonKinds == {"error", "invalid", "malformed", "short", "no_observed", "bad_kp", "kp"}

Endpoints ==
    {"kp_forecast_url", "current_kp_url", "daily-geomagnetic-indices.txt",
     "solar_wind_url", "forecast_url", "openweathermap", "clearsky"}

\* _fetch_json that asks the network in offline mode too
FetchJson_IgnoresSkip(skip_network, url, body) ==
    [body |-> IF body.kind \in {"error", "invalid"} THEN NoBody ELSE body,
     requests |-> <<url>>]

\* _fetch_json: None in offline mode, on a failed request, on a body that is
\* no JSON
FetchJson(skip_network, url, body) ==
    IF skip_network THEN [body |-> NoBody, requests |-> <<>>]
    ELSE [body |-> IF body.kind \in {"error", "invalid"} THEN NoBody ELSE body,
          requests |-> <<url>>]

\* _fetch_text
FetchText(skip_network, url, body) ==
    IF skip_network THEN [body |-> NoBody, requests |-> <<>>]
    ELSE [body |-> IF body.kind = "error" THEN NoBody ELSE body,
          requests |-> <<url>>]

\* _get_fallback_data
FallbackData ==
    [kp_index |-> "None", aurora_activity |-> "Data unavailable",
     solar_wind |-> "none", status |-> "offline"]

\* _get_solar_wind_data
GetSolarWindData(skip_network, world) ==
    LET solar_data == FetchJson(skip_network, "solar_wind_url", world["solar_wind_url"])
    IN  [result |-> IF solar_data.body.kind = "data" THEN "active"
                    ELSE IF solar_data.body.kind = "malformed" THEN "error"
                    ELSE "unavailable",
         requests |-> solar_data.requests]

\* the record that get_current_conditions returns for a Kp value
ActiveData(solar_wind) ==
    [kp_index |-> "float", aurora_activity |-> "level",
     solar_wind |-> solar_wind, status |-> "active"]

\* get_current_conditions: the processing of a JSON body raises on a
\* malformed one, which the outer except turns into the fallback at once
GetCurrentConditions(skip_network, world) ==
    LET kp_data == FetchJson(skip_network, "kp_forecast_url", world["kp_forecast_url"])
        current_kp_data == FetchJson(skip_network, "current_kp_url", world["current_kp_url"])
        text_data == FetchText(skip_network, "daily-geomagnetic-indices.txt",
                               world["daily-geomagnetic-indices.txt"])
        solar == GetSolarWindData(skip_network, world)
        log1 == kp_data.requests
        log2 == log1 \o current_kp_data.requests
        log3 == log2 \o text_data.requests
    IN  IF kp_data.body.kind = "malformed"
          THEN [result |-> FallbackData, requests |-> log1]
        ELSE IF kp_data.body.kind = "kp"
          THEN [result |-> ActiveData(solar.result), requests |-> log1 \o solar.requests]
        ELSE IF current_kp_data.body.kind = "malformed"
          THEN [result |-> FallbackData, requests |-> log2]
        ELSE IF current_kp_data.body.kind = "kp"
          THEN [result |-> ActiveData(solar.result), requests |-> log2 \o solar.requests]
        ELSE IF text_data.body.kind = "kp"
          THEN [result |-> ActiveData(solar.result), requests |-> log3 \o solar.requests]
        ELSE [result |-> FallbackData, requests |-> log3]

\* an entry of a forecast
ForecastEntry(kp_forecast, status) == [kp_forecast |-> kp_forecast, status |-> status]

\* _get_fallback_forecast
FallbackForecast == [i \in 1..3 |-> ForecastEntry("None", "offline")]

Min(a, b) == IF a < b THEN a ELSE b

\* _parse_3day_forecast of a text with a date line of body.dates dates and
\* slot lines of body.columns values: None without table, else an entry for
\* each of the first three dates that has values
Parse3DayForecast(body) ==
    IF body.kind # "table" THEN <<>>
    ELSE [i \in 1..Min(3, Min(body.dates, body.columns)) |-> ForecastEntry("Kp", "forecast")]

\* get_forecast
GetForecast(skip_network, world) ==
    LET forecast_data == FetchJson(skip_network, "kp_forecast_url", world["kp_forecast_url"])
        forecast_text == FetchText(skip_network, "forecast_url", world["forecast_url"])
        \* the days after today with a predicted or estimated row
        days == Min(3, forecast_data.body.dates)
        parsed == Parse3DayForecast(forecast_text.body)
        log1 == forecast_data.requests
        log2 == log1 \o forecast_text.requests
    IN  IF forecast_data.body.kind = "malformed"
          THEN [result |-> FallbackForecast, requests |-> log1]
        ELSE IF forecast_data.body.kind \in {"no_observed", "bad_kp", "kp"} /\ days >= 1
          THEN [result |-> [i \in 1..3 |-> IF i <= days
                                             THEN ForecastEntry("Kp", "forecast")
                                             ELSE ForecastEntry("None", "unavailable")],
                requests |-> log1]
        ELSE IF parsed # <<>>
          THEN [result |-> parsed, requests |-> log2]
        ELSE [result |-> FallbackForecast, requests |-> log2]

\* _get_atmospheric_forecast and _fetch_openweather_forecast
GetAtmosphericForecast(skip_network, api_key, world) ==
    IF skip_network \/ ~api_key
      THEN [result |-> "Fallback data - API key required", requests |-> <<>>]
      ELSE [result |-> IF world["openweathermap"].kind = "data"
                         THEN "OpenWeatherMap"
                         ELSE "Fallback data - API key required",
            requests |-> <<"openweathermap">>]

\* _download_clearsky_chart that returns its entry whatever the request does
DownloadClearskyChart_AlwaysEntry(skip_network, world) ==
    [result |-> {"local_filename", "local_path", "title", "alt"},
     requests |-> IF skip_network THEN <<>> ELSE <<"clearsky">>]

\* _download_clearsky_chart: the keys of the entry that it returns
DownloadClearskyChart(skip_network, world) ==
    IF skip_network THEN [result |-> {}, requests |-> <<>>]
    ELSE [result |-> IF world["clearsky"].kind = "image"
                       THEN {"local_filename", "local_path", "title", "alt"}
                       ELSE {},
          requests |-> <<"clearsky">>]

\* get_weather_data(output_dir), as main calls it
GetWeatherData(skip_network, api_key, show_clearsky_chart, world) ==
    LET atmospheric_forecast == GetAtmosphericForecast(skip_network, api_key, world)
        clearsky_data == IF show_clearsky_chart
                           THEN DownloadClearskyChart(skip_network, world)
                           ELSE [result |-> {}, requests |-> <<>>]
        current == GetCurrentConditions(skip_network, world)
        forecast == GetForecast(skip_network, world)
    IN  [result |-> [current |-> current.result,
                     forecast |-> forecast.result,
                     sun_times |-> "computed",
                     moon_data |-> "computed",
                     atmospheric |-> atmospheric_forecast.result,
                     clearsky_chart |-> clearsky_data.result,
                     last_updated |-> "now",
                     source |-> "NOAA Space Weather Prediction Center"],
         requests |-> atmospheric_forecast.requests \o clearsky_data.requests
                      \o current.requests \o forecast.requests]

\* the bodies of the Kp forecast endpoint, with their days of prediction
KpForecastBodies ==
    {Body(k, 0, 0) : k \in JsonKinds}
    \cup {Body(k, d, 0) : k \in {"no_observed", "kp"}, d \in 1..MaxColumns}

\* the bodies of the 3-day forecast text
ForecastTexts ==
    {Body("error", 0, 0)}
    \cup {Body("table", d, c) : d \in 0..MaxColumns, c \in 0..MaxColumns}

\* the networks that the Kp sources of get_current_conditions see
KpWorlds ==
    {[e \in Endpoints |->
         IF e = "kp_forecast_url" THEN Body(w[1], 0, 0)
         ELSE IF e = "current_kp_url" THEN Body(w[2], 0, 0)
         ELSE IF e = "daily-geomagnetic-indices.txt" THEN Body(w[3], 0, 0)
         ELSE IF e = "solar_wind_url" THEN Body(w[4], 0, 0)
         ELSE Body("error", 0, 0)] :
     w \in JsonKinds \X JsonKinds \X {"error", "no_kp", "kp"} \X {"error", "data"}}

\* the networks that get_forecast sees
ForecastWorlds ==
    {[e \in Endpoints |->
         IF e = "kp_forecast_url" THEN w[1]
         ELSE IF e = "forecast_url" THEN w[2]
         ELSE Body("error", 0, 0)] :
     w \in KpForecastBodies \X ForecastTexts}

\* the networks of get_weather_data: every endpoint fails in one of its
\* ways, or answers with data
Worlds ==
    {[e \in Endpoints |->
         IF e = "kp_forecast_url" THEN w[1]
         ELSE IF e = "current_kp_url" THEN Body(w[2], 0, 0)
         ELSE IF e = "daily-geomagnetic-indices.txt" THEN Body(w[3], 0, 0)
         ELSE IF e = "solar_wind_url" THEN Body(w[7], 0, 0)
         ELSE IF e = "forecast_url" THEN w[4]
         ELSE IF e = "openweathermap" THEN Body(w[5], 0, 0)
         ELSE Body(w[6], 0, 0)] :
     w \in {Body("error", 0, 0), Body("invalid", 0, 0), Body("kp", 3, 0)}
           \X {"error", "invalid", "kp"}
           \X {"error", "no_kp", "kp"}
           \X {Body("error", 0, 0), Body("table", 0, 0), Body("table", 3, 3)}
           \X {"error", "invalid", "data"}
           \X {"error", "image"}
           \X {"error", "data"}}

CallGetCurrentConditions(skip_network, world) ==
    /\ call = None
    /\ call' = [fn |-> "get_current_conditions", skip_network |-> skip_network,
                world |-> world, out |-> GetCurrentConditions(skip_network, world)]
    /\ UNCHANGED <<directory, target_directory, placeholders, now, run, main_run>>

CallGetForecast(skip_network, world) ==
    /\ call = None
    /\ call' = [fn |-> "get_forecast", skip_network |-> skip_network,
                world |-> world, out |-> GetForecast(skip_network, world)]
    /\ UNCHANGED <<directory, target_directory, placeholders, now, run, main_run>>

CallGetWeatherData(skip_network, api_key, show_clearsky_chart, world) ==
    /\ call = None
    /\ call' = [fn |-> "get_weather_data", skip_network |-> skip_network,
                api_key |-> api_key, show_clearsky_chart |-> show_clearsky_chart,
                world |-> world,
                out |-> GetWeatherData(skip_network, api_key, show_clearsky_chart, world)]
    /\ UNCHANGED <<directory, target_directory, placeholders, now, run, main_run>>

NextWeather ==
    \/ \E skip_network \in BOOLEAN, world \in KpWorlds :
           CallGetCurrentConditions(skip_network, world)
    \/ \E skip_network \in BOOLEAN, world \in ForecastWorlds :
           CallGetForecast(skip_network, world)
    \/ \E skip_network, api_key, show_clearsky_chart \in BOOLEAN, world \in Worlds :
           CallGetWeatherData(skip_network, api_key, show_clearsky_chart, world)

SpecWeather == Init /\ [][NextWeather]_vars

(***************************************************************************)
(* The runs that look at thumbnails: the target directory lies outside or  *)
(* inside project_root, any of the placeholder assets may be missing, and  *)
(* a video may have its <stem>.thumbnail.jpg beside it.                    *)
(***************************************************************************)
InitThumb ==
    /\ directory = <<>>
    /\ target_directory \in ThumbTargetDirs
    /\ placeholders \in ThumbPlaceholderSets
    /\ now = [date |-> FirstDay, time |-> 43200]
    /\ run = None
    /\ call = None
    /\ main_run = None

NextThumb ==
    \/ \E item \in ThumbPool :
            CreateFile(item, [date |-> FirstDay - 30, time |-> 3600])
    \/ \E i \in 1..MaxEntries : Unlink(i)
    \/ ProcessFilesCall(NoFault, 0)

SpecThumb == InitThumb /\ [][NextThumb]_vars

(***************************************************************************)
(* Properties.                                                             *)
(***************************************************************************)
Returned == run # None /\ run.result.raised = "None"

Slots(day_media) ==
    <<day_media.aurora_video, day_media.cloud_video, day_media.spaceweather_image>>

SlotKinds == <<"aurora", "cloud", "spaceweather">>

\* C1: _get_date_for_day(W, R) returns midnight of the latest date D <= R
\* whose weekday is W: D = R - ((weekday(R) - index(W) + 7) mod 7), so
\* 0 <= R - D <= 6, and D = R when R falls on W.
C1_MostRecentOccurrence ==
    (call # None /\ call.fn = "_get_date_for_day") =>
        LET R == call.reference_date.date
            D == call.ret.date
            W == DayIndex(call.day_name)
        IN  /\ call.ret.time = 0
            /\ D <= R
            /\ R - D <= 6
            /\ (D + 6) % 7 = W
            /\ \A d \in (D + 1)..R : (d + 6) % 7 # W
            /\ D = R - ((((R + 6) % 7) - W + 7) % 7)
            /\ ((R + 6) % 7 = W => D = R)

\* a call for Sunday with a Wednesday afternoon as reference, three days back
C1_Witness ==
    /\ call # None
    /\ call.fn = "_get_date_for_day"
    /\ call.day_name = Sunday
    /\ (call.reference_date.date + 6) % 7 = 2
    /\ call.reference_date.time > 0
    /\ call.ret = [date |-> call.reference_date.date - 3, time |-> 0]

\* the rules of the classifier, letter case ignored character by character
SameLetter(a, b) == LowerChar(a) = LowerChar(b)
StartsWithAnyCase(s, p) == Len(p) <= Len(s) /\ \A i \in 1..Len(p) : SameLetter(s[i], p[i])
EndsWithAnyCase(s, p) ==
    Len(p) <= Len(s) /\ \A i \in 1..Len(p) : SameLetter(s[Len(s) - Len(p) + i], p[i])
RuleAurora(n) == StartsWithAnyCase(n, lit_auroracam) /\ EndsWithAnyCase(n, lit_mp4)
RuleCloud(n) == StartsWithAnyCase(n, lit_cloudcam) /\ EndsWithAnyCase(n, lit_mp4)
RuleSpaceWeather(n) == StartsWithAnyCase(n, lit_spaceweather) /\ EndsWithAnyCase(n, lit_gif)
RuleSnapshot(n) == Len(n) = Len(lit_snapshot_jpg) /\ StartsWithAnyCase(n, lit_snapshot_jpg)

\* C2: _determine_file_type follows exactly the four case-insensitive rules
\* (AuroraCam*.mp4 aurora, CloudCam*.mp4 cloud, SpaceWeather*.gif
\* spaceweather, snapshot.jpg snapshot, anything else unclassified), and no
\* name satisfies two of the rules.
C2_ClassifierRules ==
    (call # None /\ call.fn = "_determine_file_type") =>
        LET n == call.filename IN
        /\ (call.ret = "aurora") <=> RuleAurora(n)
        /\ (call.ret = "cloud") <=> RuleCloud(n)
        /\ (call.ret = "spaceweather") <=> RuleSpaceWeather(n)
        /\ (call.ret = "snapshot") <=> RuleSnapshot(n)
        /\ (call.ret = "None") <=>
               ~(RuleAurora(n) \/ RuleCloud(n) \/ RuleSpaceWeather(n) \/ RuleSnapshot(n))
        /\ Cardinality({r \in 1..4 :
               <<RuleAurora(n), RuleCloud(n), RuleSpaceWeather(n), RuleSnapshot(n)>>[r]}) <= 1

\* a name in capitals, with more text between prefix and extension, is aurora
C2_Witness ==
    /\ call # None
    /\ call.fn = "_determine_file_type"
    /\ call.ret = "aurora"
    /\ call.filename # Lower(call.filename)
    /\ Len(call.filename) > Len(lit_auroracam) + Len(lit_mp4)

\* the scanned files of a weekday and kind, by their place in the scan
ScannedAt(day_name, kind) ==
    {i \in 1..Len(run.result.media_files) :
        /\ run.result.media_files[i].day = day_name
        /\ run.result.media_files[i].type = kind}

Last(S) == CHOOSE i \in S : \A k \in S : k <= i

\* C3: after process_files every slot of every DayGroup holds at most one
\* file, and when several scanned files share a (weekday, kind) the slot
\* holds the one that came last in directory iteration order.
C3_LastOneWins ==
    Returned =>
        \A d \in 1..Len(run.result.days) : \A k \in 1..3 :
            LET slot == Slots(run.result.days[d])[k]
                from == ScannedAt(run.result.days[d].day_name, SlotKinds[k])
            IN  IF from = {} THEN slot = None
                ELSE /\ slot # None
                     /\ slot.path = run.result.media_files[Last(from)].path
                     /\ slot.type = SlotKinds[k]

\* two scanned files are aurora videos of Monday and the slot holds the second
C3_Witness ==
    /\ Returned
    /\ Len(run.result.days) >= 1
    /\ \E i, j \in ScannedAt(Monday, "aurora") :
          /\ i < j
          /\ run.result.media_files[i].path # run.result.media_files[j].path
          /\ \E d \in 1..Len(run.result.days) :
                /\ run.result.days[d].aurora_video # None
                /\ run.result.days[d].aurora_video.path = run.result.media_files[j].path

\* C4: the DayGroup sequence process_files returns is strictly sorted by
\* calendar date descending.
C4_StrictlyDescending ==
    Returned =>
        \A i \in 1..(Len(run.result.days) - 1) :
            Later(run.result.days[i].date, run.result.days[i + 1].date)

\* three days are returned, in another order than Monday .. Sunday
C4_Witness ==
    /\ Returned
    /\ Len(run.result.days) = 3
    /\ run.result.days[1].day_name = Tuesday
    /\ run.result.days[2].day_name = Monday
    /\ run.result.days[3].day_name = Sunday

\* what C5 compares: weekday, date and the file of every slot
SlotPath(media_file) == IF media_file = None THEN NoPath ELSE media_file.path

Dated(result) ==
    [raised |-> result.raised,
     days |-> [i \in 1..Len(result.days) |->
                 [day_name |-> result.days[i].day_name,
                  date |-> result.days[i].date,
                  aurora_video |-> SlotPath(result.days[i].aurora_video),
                  cloud_video |-> SlotPath(result.days[i].cloud_video),
                  spaceweather_image |-> SlotPath(result.days[i].spaceweather_image)]],
     snapshot |-> SlotPath(result.snapshot)]

\* the directory with every modification time set to one far-away value
Retimed(dir) == [i \in 1..Len(dir) |-> [dir[i] EXCEPT !.mtime = [date |-> 1, time |-> 0]]]

\* C5: the run over a directory that differs only in the files' modification
\* times (same names, same scan order, same clock) returns the same sequence
\* of (weekday, date) and the same file in every slot.
C5_MtimeIndependent ==
    run # None =>
        Dated(run.result) =
            Dated(ProcessFiles(Retimed(directory), target_directory, placeholders,
                               run.fault, run.clock, run.rollover))

\* two days are returned and the file of the later day is the older one
C5_Witness ==
    /\ Returned
    /\ Len(run.result.days) >= 2
    /\ \E a \in 1..3, b \in 1..3 :
          /\ Slots(run.result.days[1])[a] # None
          /\ Slots(run.result.days[2])[b] # None
          /\ Later(Slots(run.result.days[2])[b].file_date,
                   Slots(run.result.days[1])[a].file_date)

\* C6: the output holds a DayGroup for weekday W if and only if a scanned
\* file of kind aurora, cloud or spaceweather resolved to W; one DayGroup per
\* such weekday; no DayGroup has all three slots empty.
C6_GroupsAreTheResolvedDays ==
    Returned =>
        LET days == run.result.days
            mf == run.result.media_files
        IN  /\ {days[i].day_name : i \in 1..Len(days)} =
                   {mf[i].day : i \in {k \in 1..Len(mf) :
                        /\ mf[k].type \in {"aurora", "cloud", "spaceweather"}
                        /\ mf[k].day # NoneStr}}
            /\ \A i, j \in 1..Len(days) : days[i].day_name = days[j].day_name => i = j
            /\ \A i \in 1..Len(days) : \E k \in 1..3 : Slots(days[i])[k] # None

\* a classified file without weekday was scanned with a file of a weekday,
\* and one DayGroup is returned
C6_Witness ==
    /\ Returned
    /\ Len(run.result.days) = 1
    /\ \E i, j \in 1..Len(run.result.media_files) :
          /\ run.result.media_files[i].type = "aurora"
          /\ run.result.media_files[i].day = NoneStr
          /\ run.result.media_files[j].day # NoneStr

\* the scan reads the whole directory: no fault ends it early
WholeScan == run # None /\ run.fault.kind \in {"none", "getmtime"}

HoldsSnapshot ==
    \E i \in 1..Len(directory) :
        directory[i].is_file /\ FileTypeOfName[directory[i].name] = "snapshot"

HoldsDayFile ==
    \E i \in 1..Len(directory) :
        /\ directory[i].is_file
        /\ FileTypeOfName[directory[i].name] \in {"aurora", "cloud", "spaceweather"}
        /\ DayOfName[directory[i].name] # NoneStr

\* C7: a snapshot file never carries a weekday and never occupies a slot of a
\* DayGroup; from a directory with a snapshot and a weekday-resolvable day
\* file, a run whose scan reads the whole directory returns a non-empty day
\* sequence and a present snapshot.
C7_SnapshotApart ==
    Returned =>
        /\ \A i \in 1..Len(run.result.media_files) :
              run.result.media_files[i].type = "snapshot"
                  => run.result.media_files[i].day = NoneStr
        /\ \A d \in 1..Len(run.result.days) : \A k \in 1..3 :
              Slots(run.result.days[d])[k] # None =>
                  /\ Slots(run.result.days[d])[k].type # "snapshot"
                  /\ Lower(PathName(Slots(run.result.days[d])[k].path)[1]) # lit_snapshot_jpg
        /\ run.result.snapshot # None => run.result.snapshot.type = "snapshot"
        /\ (WholeScan /\ HoldsSnapshot /\ HoldsDayFile) =>
              /\ run.result.days # <<>>
              /\ run.result.snapshot # None
              /\ Lower(PathName(run.result.snapshot.path)[1]) = lit_snapshot_jpg

\* snapshot.jpg and a video of Monday: a day and the snapshot are returned
C7_Witness ==
    /\ Returned
    /\ WholeScan /\ HoldsSnapshot /\ HoldsDayFile
    /\ Len(run.result.days) >= 1
    /\ run.result.snapshot # None
    /\ run.result.snapshot.day = NoneStr

\* the paths process_files returns: the files of the slots and the snapshot
ReturnedPaths ==
    {SlotPath(Slots(run.result.days[d])[k]) : d \in 1..Len(run.result.days), k \in 1..3}
    \cup {SlotPath(run.result.snapshot)}

\* entry j is a regular file that is a snapshot or a day file, and no later
\* entry takes its place
Expected(j) ==
    /\ directory[j].is_file
    /\ \/ FileTypeOfName[directory[j].name] = "snapshot"
       \/ /\ FileTypeOfName[directory[j].name] \in {"aurora", "cloud", "spaceweather"}
          /\ DayOfName[directory[j].name] # NoneStr
    /\ \A m \in (j + 1)..Len(directory) :
          \/ FileTypeOfName[directory[m].name] # FileTypeOfName[directory[j].name]
          \/ /\ FileTypeOfName[directory[j].name] # "snapshot"
             /\ DayOfName[directory[m].name] # DayOfName[directory[j].name]

\* C8: when the stat, modification-time or size lookup of one entry raises an
\* OS error, every other classifiable entry, those after it in iteration
\* order too, is still in the result of process_files.
C8_ScanContinuesAfterFault ==
    (run # None /\ run.fault.kind \in {"stat", "getmtime"}) =>
        \A j \in 1..Len(directory) :
            (j # run.fault.at /\ Expected(j)) =>
                (target_directory \o <<directory[j].name>>) \in ReturnedPaths

\* C9: process_files lets no exception escape: on every failure path it
\* returns a valid, possibly empty, pair of day sequence and snapshot.
C9_NoExceptionEscapes ==
    run # None => run.result.raised = "None"

\* C10: when iterdir() raises an OS error before yielding an entry,
\* process_files returns ([], None) and raises nothing.
C10_UnlistableDirectoryIsEmpty ==
    (run # None /\ run.fault.kind = "iterdir") =>
        /\ run.result.raised = "None"
        /\ run.result.days = <<>>
        /\ run.result.snapshot = None

\* a directory with a snapshot and a day file cannot be listed
C10_Witness ==
    /\ run # None
    /\ run.fault.kind = "iterdir"
    /\ HoldsSnapshot /\ HoldsDayFile
    /\ run.result.raised = "None"
    /\ run.result.days = <<>>

(***************************************************************************)
(* Thumbnails.                                                             *)
(***************************************************************************)
\* the name of the thumbnail that belongs to a video named n: n without its
\* four-character extension, followed by .thumbnail.jpg
SiblingName(n) == SubSeq(n, 1, Len(n) - Len(lit_mp4)) \o lit_thumbnail_jpg

HasSibling(n) ==
    \E k \in 1..Len(directory) :
        directory[k].name = SiblingName(n) /\ directory[k].is_file

HasPlaceholder(kind) ==
    \/ kind = "aurora" /\ "night" \in placeholders
    \/ kind = "cloud" /\ "day" \in placeholders

FileName(media_file) == media_file.path[Len(media_file.path)]

\* the MediaFiles that process_files returned: those in the slots and the
\* snapshot
ReturnedFiles ==
    {f \in {Slots(run.result.days[d])[k] : d \in 1..Len(run.result.days), k \in 1..3}
            \cup {run.result.snapshot} : f # None}

\* C11: the scan gives every aurora or cloud video the thumbnail of this
\* chain: its sibling <stem>.thumbnail.jpg in the target directory when that
\* exists as a regular file; else the placeholder of its kind (night for
\* aurora, day for cloud) when that asset exists; else none. The placeholder
\* is never taken when the sibling exists.
C11_ThumbnailChain ==
    run # None =>
        \A i \in 1..Len(run.result.media_files) :
            LET f == run.result.media_files[i] IN
            f.type \in {"aurora", "cloud"} =>
                f.thumbnail_path =
                    IF HasSibling(FileName(f))
                      THEN target_directory \o <<SiblingName(FileName(f))>>
                    ELSE IF f.type = "aurora" /\ "night" \in placeholders
                      THEN placeholder_night
                    ELSE IF f.type = "cloud" /\ "day" \in placeholders
                      THEN placeholder_day
                    ELSE NoPath

\* an aurora video takes its sibling although the night placeholder exists,
\* and a cloud video with neither sibling file nor day placeholder takes none
C11_Witness ==
    /\ run # None
    /\ placeholders = {"night"}
    /\ \E i, j \in 1..Len(run.result.media_files) :
          /\ run.result.media_files[i].type = "aurora"
          /\ run.result.media_files[i].thumbnail_path = target_directory \o <<t_1>>
          /\ run.result.media_files[j].type = "cloud"
          /\ run.result.media_files[j].thumbnail_path = NoPath
    /\ \E k \in 1..Len(directory) : directory[k].name = t_1 /\ directory[k].is_file

\* C12: in the result of process_files the thumbnail of a video whose sibling
\* <stem>.thumbnail.jpg exists in the target directory is that sibling's path
\* relative to the target directory, the bare name, wherever the target
\* directory lies.
C12_SiblingRelativeToTarget ==
    Returned =>
        \A f \in ReturnedFiles :
            (f.type \in {"aurora", "cloud"} /\ HasSibling(FileName(f))) =>
                f.thumbnail_path = <<SiblingName(FileName(f))>>

\* C13: in the result of process_files a video without sibling thumbnail
\* whose placeholder asset exists carries the placeholder's path relative to
\* project_root, static/images/placeholder-*.jpg, which is no path under the
\* target directory; and no thumbnail path of a returned MediaFile is
\* absolute.
C13_PlaceholderRelativeToRoot ==
    Returned =>
        \A f \in ReturnedFiles :
            /\ (f.type \in {"aurora", "cloud"} /\ ~HasSibling(FileName(f))
                    /\ HasPlaceholder(f.type)) =>
                  /\ f.thumbnail_path =
                        <<lit_static, lit_images,
                          IF f.type = "aurora" THEN lit_placeholder_night
                                               ELSE lit_placeholder_day>>
                  /\ ~IsRelativeTo(f.thumbnail_path, target_directory)
            /\ f.thumbnail_path # NoPath => ~IsAbsolute(f.thumbnail_path)

\* a cloud video without sibling gets the day placeholder, returned from a
\* target directory inside project_root, beside an aurora video with sibling
C13_Witness ==
    /\ Returned
    /\ IsRelativeTo(target_directory, project_root)
    /\ \E f, g \in ReturnedFiles :
          /\ f.type = "cloud" /\ ~HasSibling(FileName(f))
          /\ f.thumbnail_path = <<lit_static, lit_images, lit_placeholder_day>>
          /\ g.type = "aurora" /\ HasSibling(FileName(g))

\* C14: a spaceweather or snapshot file has no thumbnail, after the scan and
\* in the result of process_files, whether or not a <stem>.thumbnail.jpg
\* sibling or a placeholder asset exists.
C14_NoThumbnailForImages ==
    run # None =>
        /\ \A i \in 1..Len(run.result.media_files) :
              run.result.media_files[i].type \in {"spaceweather", "snapshot"} =>
                  run.result.media_files[i].thumbnail_path = NoPath
        /\ \A f \in ReturnedFiles :
              f.type \in {"spaceweather", "snapshot"} => f.thumbnail_path = NoPath

\* a spaceweather image with a <stem>.thumbnail.jpg beside it and a snapshot
\* are returned while both placeholder assets exist
C14_Witness ==
    /\ Returned
    /\ placeholders = {"day", "night"}
    /\ \E k \in 1..Len(directory) : directory[k].name = t_3 /\ directory[k].is_file
    /\ \E f, g \in ReturnedFiles : f.type = "spaceweather" /\ g.type = "snapshot"

(***************************************************************************)
(* Weekday extraction.                                                     *)
(***************************************************************************)
\* the name is classified as a day file: aurora, cloud or spaceweather
ClassifiedDayFile(n) == RuleAurora(n) \/ RuleCloud(n) \/ RuleSpaceWeather(n)

\* the weekday that w names in whatever letter case, or none
Canonical(w) ==
    IF \E d \in 1..Len(DAYS_ORDER) :
            Len(w) = Len(DAYS_ORDER[d]) /\ StartsWithAnyCase(w, DAYS_ORDER[d])
      THEN DAYS_ORDER[CHOOSE d \in 1..Len(DAYS_ORDER) :
                          Len(w) = Len(DAYS_ORDER[d]) /\ StartsWithAnyCase(w, DAYS_ORDER[d])]
      ELSE NoneStr

\* the longest suffix of s made of letters
TrailingRun(s) ==
    LET n == CHOOSE k \in 0..Len(s) :
                /\ \A m \in (Len(s) - k + 1)..Len(s) : IsAlpha(s[m])
                /\ (k = Len(s) \/ ~IsAlpha(s[Len(s) - k]))
    IN  SubSeq(s, Len(s) - n + 1, Len(s))

\* the prefix and extension of each kind of day file
DayFileForms ==
    {<<lit_auroracam, lit_mp4>>, <<lit_cloudcam, lit_mp4>>, <<lit_spaceweather, lit_gif>>}

\* n is <Prefix>_<W>.<ext> in any letter case, W a word of letters
HasForm(n, form) ==
    /\ StartsWithAnyCase(n, form[1])
    /\ EndsWithAnyCase(n, form[2])
    /\ Len(n) > Len(form[1]) + 1 + Len(form[2])
    /\ n[Len(form[1]) + 1] = "_"
    /\ \A m \in (Len(form[1]) + 2)..(Len(n) - Len(form[2])) : IsAlpha(n[m])

IsPrefixWordExt(n) == \E form \in DayFileForms : HasForm(n, form)

\* the W of a name that is <Prefix>_<W>.<ext>
WordOf(n) ==
    LET form == CHOOSE fm \in DayFileForms : HasForm(n, fm)
    IN  SubSeq(n, Len(form[1]) + 2, Len(n) - Len(form[2]))

\* C15: for a classified non-snapshot filename that the primary pattern
\* <Prefix>_<WeekdayName>.<ext> does not match, _parse_day_from_filename
\* returns the canonical weekday named by the trailing run of letters of the
\* filename without its extension (AuroraCam-Monday.mp4 gives Monday), and
\* none when that run names no weekday.
C15_FallbackOnStem ==
    (/\ call # None
     /\ call.fn = "_parse_day_from_filename"
     /\ ClassifiedDayFile(call.filename)
     /\ Pattern1Starts(call.filename) = {}) =>
        call.ret = Canonical(TrailingRun(Stem(call.filename)))

\* C16: for a classified filename <Prefix>_<W>.<ext>, W a word of letters:
\* when W is a weekday in any letter case, _parse_day_from_filename returns
\* its canonical title-cased name, and process_files over a directory with
\* that file returns one DayGroup of that name holding the file; when W is
\* no weekday, _parse_day_from_filename returns none and process_files
\* returns no DayGroup.
C16_UnderscoreForm ==
    (call # None /\ call.fn \in {"_parse_day_from_filename", "process_files"}
        /\ IsPrefixWordExt(call.filename)) =>
        LET day == Canonical(WordOf(call.filename)) IN
        IF call.fn = "_parse_day_from_filename" THEN call.ret = day
        ELSE /\ call.ret.raised = "None"
             /\ Len(call.ret.media_files) = 1
             /\ call.ret.media_files[1].day = day
             /\ IF day = NoneStr THEN call.ret.days = <<>>
                ELSE /\ Len(call.ret.days) = 1
                     /\ call.ret.days[1].day_name = day
                     /\ \E k \in 1..3 :
                           /\ Slots(call.ret.days[1])[k] # None
                           /\ Slots(call.ret.days[1])[k].path =
                                 target_directory \o <<call.filename>>

\* process_files over a directory holding cloudcam_monday.mp4 has returned
\* the DayGroup Monday
C16_Witness ==
    /\ call # None
    /\ call.fn = "process_files"
    /\ IsPrefixWordExt(call.filename)
    /\ WordOf(call.filename) = <<"m","o","n","d","a","y">>
    /\ Len(call.ret.days) = 1
    /\ call.ret.days[1].day_name = Monday

(***************************************************************************)
(* Empty scans, unclassified files, main, and the window of dates.         *)
(***************************************************************************)
\* entry i is a regular file that the scan classifies
Classifiable(dir, i) == dir[i].is_file /\ FileTypeOfName[dir[i].name] # "None"

\* C17: from a directory with no entries, or with no classifiable file,
\* process_files returns exactly ([], None): no day and no snapshot.
C17_EmptyScan ==
    (run # None /\ \A i \in 1..Len(directory) : ~Classifiable(directory, i)) =>
        /\ run.result.raised = "None"
        /\ run.result.days = <<>>
        /\ run.result.snapshot = None

\* a run over an unclassified file beside a subdirectory named like a video
C17_Witness ==
    /\ run # None
    /\ \A i \in 1..Len(directory) : ~Classifiable(directory, i)
    /\ \E i, j \in 1..Len(directory) :
          /\ directory[i].name = f_7
          /\ directory[j].name = f_9
    /\ run.result.days = <<>>

\* entry i is the <stem>.thumbnail.jpg of a video that the scan reads
IsSiblingOfVideo(dir, i) ==
    \E v \in 1..Len(dir) :
        /\ dir[v].is_file
        /\ FileTypeOfName[dir[v].name] \in {"aurora", "cloud"}
        /\ dir[i].name = SubSeq(dir[v].name, 1, Len(dir[v].name) - Len(lit_mp4))
                             \o lit_thumbnail_jpg

\* the directory without its unclassified files, thumbnails of scanned
\* videos excepted
WithoutUnclassified(dir) ==
    LET keep == {i \in 1..Len(dir) :
                    ~dir[i].is_file \/ FileTypeOfName[dir[i].name] # "None"
                        \/ IsSiblingOfVideo(dir, i)}
        Pick[i \in 0..Len(dir)] ==
            IF i = 0 THEN <<>>
            ELSE IF i \in keep THEN Append(Pick[i - 1], dir[i]) ELSE Pick[i - 1]
    IN  Pick[Len(dir)]

\* C18: without I/O fault, process_files does not abort and returns what it
\* returns from the directory without its unclassified files (those that are
\* the <stem>.thumbnail.jpg of a scanned video excepted): unclassified files
\* have no effect on the result.
C18_UnclassifiedHaveNoEffect ==
    (run # None /\ run.fault = NoFault) =>
        /\ run.result.raised = "None"
        /\ Len(run.result.media_files) =
              Cardinality({i \in 1..Len(directory) : Classifiable(directory, i)})
        /\ run.result =
              ProcessFiles(WithoutUnclassified(directory), target_directory,
                           placeholders, NoFault, run.clock, run.rollover)

\* a run that returned a day from a directory with an unclassified file in
\* front of the day file
C18_Witness ==
    /\ run # None
    /\ run.fault = NoFault
    /\ Len(directory) >= 2
    /\ directory[1].is_file /\ FileTypeOfName[directory[1].name] = "None"
    /\ WithoutUnclassified(directory) # directory
    /\ Len(run.result.days) >= 1

\* C19: when process_files returns an empty day sequence, with or without a
\* snapshot, main returns 1 having called neither get_weather_data nor
\* generate_website: nothing is fetched and no page is written.
C19_NothingToRender ==
    (main_run # None /\ run # None /\ run.result.days = <<>>) =>
        /\ \A i \in 1..Len(main_run.calls) :
              main_run.calls[i] \notin {"get_weather_data", "generate_website"}
        /\ ~main_run.html_written
        /\ main_run.status = 1

\* main has run over a directory from which process_files returned a snapshot
\* and no day
C19_Witness ==
    /\ main_run # None
    /\ run # None
    /\ run.result.raised = "None"
    /\ run.result.days = <<>>
    /\ run.result.snapshot # None

\* C20: in every output of process_files the dates of the DayGroups are
\* pairwise distinct, each is midnight of a date that falls on the group's
\* weekday, and all lie in one window of seven consecutive days that ends at
\* the current date (the date of the clock at the start of the run, or, when
\* midnight passes within the run, possibly the next); every file in a slot
\* carries the weekday of its group, whose one date it shares.
C20_OneWindow ==
    Returned =>
        LET days == run.result.days
            ends == {run.clock.date} \cup
                    (IF run.rollover > 0 THEN {run.clock.date + 1} ELSE {})
        IN  /\ \A i, j \in 1..Len(days) : i # j => days[i].date # days[j].date
            /\ \E e \in ends : \A i \in 1..Len(days) :
                  days[i].date.date \in (e - 6)..e
            /\ \A i \in 1..Len(days) :
                  /\ days[i].date.time = 0
                  /\ (days[i].date.date + 6) % 7 = DayIndex(days[i].day_name)
                  /\ \A k \in 1..3 :
                        Slots(days[i])[k] # None =>
                            Slots(days[i])[k].day = days[i].day_name

\* a run in which midnight passed between two weekdays, the first of them
\* the weekday of the new date, returned three DayGroups
C20_Witness ==
    /\ Returned
    /\ run.rollover > 0
    /\ Len(run.result.days) = 3
    /\ \E i, j \in 1..3 :
          /\ run.result.days[i].date.date = run.clock.date - 6
          /\ run.result.days[j].date.date > run.clock.date - 6

(***************************************************************************)
(* Duplicate snapshots and the order of the scan.                          *)
(***************************************************************************)
ScannedSnapshots ==
    {i \in 1..Len(run.result.media_files) : run.result.media_files[i].type = "snapshot"}

\* C23: of the scanned files that classify as snapshot, process_files returns
\* the one that came last in directory iteration order, as its one snapshot;
\* none of them sits in a slot, and without such a file no snapshot is
\* returned.
C23_LastSnapshotWins ==
    Returned =>
        /\ IF ScannedSnapshots = {} THEN run.result.snapshot = None
           ELSE run.result.snapshot = run.result.media_files[Last(ScannedSnapshots)]
        /\ \A d \in 1..Len(run.result.days) : \A k \in 1..3 :
              Slots(run.result.days[d])[k] # None =>
                  Slots(run.result.days[d])[k].type # "snapshot"

\* snapshot.jpg and Snapshot.JPG were both scanned, beside a day file
C23_Witness ==
    /\ Returned
    /\ Cardinality(ScannedSnapshots) = 2
    /\ Len(run.result.days) = 1
    /\ run.result.snapshot # None

\* the orders in which a directory of n entries can be iterated
Orders(n) == {p \in [1..n -> 1..n] : \A i, j \in 1..n : i # j => p[i] # p[j]}

\* what process_files gives its caller
Outcome(result) ==
    [raised |-> result.raised, days |-> result.days, snapshot |-> result.snapshot]

NoDuplicates ==
    /\ \A i, j \in 1..Len(directory) :
          (/\ i # j
           /\ Classifiable(directory, i) /\ Classifiable(directory, j)
           /\ FileTypeOfName[directory[i].name] = FileTypeOfName[directory[j].name]) =>
              /\ FileTypeOfName[directory[i].name] # "snapshot"
              /\ \/ DayOfName[directory[i].name] = NoneStr
                 \/ DayOfName[directory[i].name] # DayOfName[directory[j].name]

\* C28: when no two scanned files share a (weekday, kind), at most one file
\* is a snapshot and no I/O fault occurs, process_files returns the same days
\* and the same snapshot for every order in which the directory is iterated.
C28_OrderIndependent ==
    (run # None /\ run.fault = NoFault /\ NoDuplicates) =>
        \A p \in Orders(Len(directory)) :
            Outcome(ProcessFiles([i \in 1..Len(directory) |-> directory[p[i]]],
                                 target_directory, placeholders, NoFault,
                                 run.clock, run.rollover))
                = Outcome(run.result)

\* three day files without duplicates were returned from a run in which
\* midnight passed between two weekdays
C28_Witness ==
    /\ Returned
    /\ run.fault = NoFault
    /\ NoDuplicates
    /\ run.rollover > 0
    /\ Len(run.result.days) = 3

\* the form of the names of each slot, in the order of Slots
SlotForms == <<<<lit_auroracam, lit_mp4>>, <<lit_cloudcam, lit_mp4>>,
               <<lit_spaceweather, lit_gif>>>>

\* C29: every file that process_files puts in a slot has a name that as a
\* whole, in any letter case, is <Prefix>_<Weekday>.<ext> with the prefix and
\* extension of the slot's kind and the weekday of its DayGroup; from a
\* directory whose one classified file has text before or after that form no
\* DayGroup is returned.
C29_WholeNameForm ==
    (call # None /\ call.fn = "process_files") =>
        /\ \A d \in 1..Len(call.ret.days) : \A k \in 1..3 :
              LET f == Slots(call.ret.days[d])[k] IN
              f # None =>
                  /\ HasForm(FileName(f), SlotForms[k])
                  /\ Canonical(SubSeq(FileName(f), Len(SlotForms[k][1]) + 2,
                                      Len(FileName(f)) - Len(SlotForms[k][2])))
                        = call.ret.days[d].day_name
        /\ ~IsPrefixWordExt(call.filename) => call.ret.days = <<>>

\* C27: main returns status 0 only if generate_website wrote the page; when
\* generate_website fails, main returns a status other than 0.
C27_SuccessMeansWritten ==
    (main_run # None /\ main_run.status = 0) => main_run.html_written

\* C30: _copy_static_files leaves the source static directory as it was, for
\* every output directory, project_root included: after the call the source
\* exists with its content, and no path other than <output_dir>/static has
\* changed.
C30_SourceUntouched ==
    (call # None /\ call.fn = "_copy_static_files") =>
        /\ call.after[static_dir] = call.before[static_dir]
        /\ \A q \in StaticPaths :
              q # call.output_dir \o <<lit_static>> => call.after[q] = call.before[q]

\* C26: after Config is loaded, every mapped AURORA_* variable that is set
\* has overridden its configuration value, which equals the converted value
\* of the variable, whether config.yml is present, missing, unreadable or
\* malformed.
C26_EnvOverridesOnEveryPath ==
    (call # None /\ call.fn = "Config") =>
        \A v \in DOMAIN EnvMappings :
            call.env[v] # Unset =>
                ConfigGet(call.config, EnvMappings[v]) = ConvertEnvValue(call.env[v].text)

\* the Kp sources of get_current_conditions, in the order of the code
KpSources == <<"kp_forecast_url", "current_kp_url", "daily-geomagnetic-indices.txt">>

\* the requests of a log that went to a Kp source
KpRequests(requests) == SelectSeq(requests, LAMBDA u : \E i \in 1..3 : KpSources[i] = u)

\* the sources that yield a Kp value in a network
Yielding(world) == {i \in 1..3 : world[KpSources[i]].kind = "kp"}

\* C24: get_current_conditions asks the Kp forecast JSON, then the Kp
\* archive JSON, then the daily-indices text; it returns 'active' data from
\* the first source that yields a Kp value, without a request to a later Kp
\* source; and it returns the offline fallback only after a request to each
\* of the three has yielded no Kp value.
C24_FixedOrderOfSources ==
    (call # None /\ call.fn = "get_current_conditions" /\ ~call.skip_network) =>
        LET asked == KpRequests(call.out.requests) IN
        /\ asked = SubSeq(KpSources, 1, Len(asked))
        /\ call.out.result.status = "active" =>
              /\ Yielding(call.world) # {}
              /\ \A i \in Yielding(call.world) : Len(asked) <= i
              /\ Len(asked) \in Yielding(call.world)
        /\ call.out.result.status = "offline" =>
              /\ call.out.result = FallbackData
              /\ asked = KpSources
              /\ Yielding(call.world) = {}

\* C25: get_forecast returns exactly three entries, on the JSON path, on
\* the text path and on the fallback path.
C25_ThreeEntries ==
    (call # None /\ call.fn = "get_forecast") => Len(call.out.result) = 3

\* C21: with skip_network no request is sent, by get_weather_data or by
\* get_current_conditions or get_forecast alone, and get_weather_data
\* returns a record with all its keys whose current conditions are offline
\* with kp_index None.
C21_OfflineMode ==
    (call # None /\ call.fn \in {"get_weather_data", "get_current_conditions", "get_forecast"}
                 /\ call.skip_network) =>
        /\ call.out.requests = <<>>
        /\ call.fn = "get_weather_data" =>
              /\ DOMAIN call.out.result =
                     {"current", "forecast", "sun_times", "moon_data", "atmospheric",
                      "clearsky_chart", "last_updated", "source"}
              /\ call.out.result.current.status = "offline"
              /\ call.out.result.current.kp_index = "None"
              /\ Len(call.out.result.forecast) = 3

\* offline mode with an API key, the chart enabled and a network that would
\* have answered every request with data
C21_Witness ==
    /\ call # None /\ call.fn = "get_weather_data"
    /\ call.skip_network /\ call.api_key /\ call.show_clearsky_chart
    /\ call.world["kp_forecast_url"].kind = "kp"
    /\ call.world["forecast_url"].kind = "table"
    /\ call.world["openweathermap"].kind = "data"
    /\ call.world["clearsky"].kind = "image"
    /\ call.out.requests = <<>>

\* every request of the network fails: an error or a timeout, or a body
\* that cannot be parsed where the code parses one
EveryRequestFails(world) ==
    /\ world["kp_forecast_url"].kind \in {"error", "invalid"}
    /\ world["current_kp_url"].kind \in {"error", "invalid"}
    /\ world["daily-geomagnetic-indices.txt"].kind \in {"error", "no_kp"}
    /\ world["solar_wind_url"].kind \in {"error", "invalid", "no_kp"}
    /\ world["forecast_url"].kind = "error"
       \/ (world["forecast_url"].kind = "table" /\ world["forecast_url"].dates = 0)
    /\ world["openweathermap"].kind \in {"error", "invalid"}
    /\ world["clearsky"].kind = "error"

====
